---- MODULE Spec2Model ----
(***************************************************************************)
(* A model of the protocol runner client of tezedge                        *)
(* (tezos/protocol-ipc-client/src/lib.rs).                                 *)
(*                                                                         *)
(* Three state machines share the module, each with its own               *)
(* specification:                                                          *)
(*   SpecConn   one ProtocolRunnerConnection: the command methods built    *)
(*              by the handle_request macro, the channel to the runner     *)
(*              and the per-call receive deadline;                         *)
(*   SpecWatch  the readiness watch behind wait_for_context_init and       *)
(*              readable_connection (SpecWatchFair adds the scheduling     *)
(*              fairness of the awaiting tasks);                           *)
(*   SpecStart  ProtocolRunnerApi::start: unlink of the socket path,       *)
(*              spawn of the child and the wait for its socket.            *)
(* A specification leaves the variables of the other machines unchanged.   *)
(***************************************************************************)
EXTENDS Integers, Sequences, FiniteSets, TLC

VARIABLES
    \* ---- connection (SpecConn)
    pc,         \* "idle": no call in progress; "receiving": request sent, awaiting try_receive
    req,        \* the request of the current (or last) call
    outbox,     \* ids of requests written to the channel, not yet answered by the runner
    inbox,      \* ids of the requests whose reply frame waits on the receive side (FIFO)
    chanOpen,   \* the runner's end of the channel is open
    elapsed,    \* seconds since the current call's try_receive began
    ticks,      \* number of clock steps taken during the current call
    calls,      \* number of calls made on this connection
    ret,        \* what the last call returned (NoRet while none has returned)
    got,        \* the NodeMessage the last call consumed (NoMsg if none)
    gotRe,      \* id of the request the consumed frame answers (0 if none)
    gotLate,    \* the consumed frame arrived after the method's timeout had passed
    prevTag,    \* how the call before the last one returned ("none" if there is none)
    prevOwn,    \* the call before the last one read the reply to its own request
    healthyPings, \* the last calls returned that were Pings answered in time by PingResult
    \* ---- readiness watch (SpecWatch)
    wValue,     \* the watched boolean
    wClosed,    \* the watch Sender has been dropped
    wUnseen,    \* the value's version differs from the one the shared Receiver has seen
    mutex,      \* holder of the tokio Mutex around the Receiver (0: free)
    aPc,        \* position of each awaiting task
    aKind,      \* what each task called: "wait" or "readable"
    aWait,      \* result of the task's wait_for_context_init
    aConn,      \* result of the task's connect() (readable_connection only)
    aStartVal,  \* the watched value when the task made its call
    aDone,      \* number of times the task's wait_for_context_init has returned
    everTrue,   \* the watched value has been true at some time
    \* ---- start (SpecStart)
    sPc,        \* position inside ProtocolRunnerApi::start
    sockFile,   \* the file at socket_path (NoFile if absent)
    children,   \* state of every child spawned so far, in spawn order
    sTimeout,   \* timeout argument of the running start (Option, milliseconds)
    waited,     \* `start.elapsed()` of wait_for_socket, milliseconds
    sRet,       \* what the last start returned
    starts,     \* number of calls of start
    preFile,    \* the file at socket_path when the running start was called
    spawnFile,  \* the file at socket_path when the running start spawned its child
    seenFile,   \* the file whose existence ended the wait of the last start
    polls,      \* existence checks made by the wait_for_socket of the last start
    handles,    \* the children whose Child value has not been dropped
    \* --- the composite operations of a connection (SpecOps) ---
    configuration, \* the ProtocolRunnerConfiguration of the connection
    opPc,       \* "idle", or "recv": a command of the operation awaits its reply
    opName,     \* the operation called last
    opArgs,     \* its arguments
    opStep,     \* the position of the operation in its body
    opSent,     \* the requests the operation passed to io.send, in order
    opSaved,    \* the result of init_protocol_context kept by init_protocol_for_write
    opReplies,  \* what each try_receive of the operation yielded, in order
    opRet,      \* what the operation returned
    ops,        \* number of operations called
    \* --- handle_protocol_service_error (SpecErr) ---
    hErr,       \* the error it was called with last
    hRet,       \* what that call returned
    hLog,       \* the errors that call passed to log_callback, in order
    handled,    \* number of calls
    \* --- the socket path of the ProtocolRunnerApi values (SpecPath) ---
    socket_path, \* the field socket_path of each ProtocolRunnerApi value
    cloneOf,    \* the value each one was cloned from, 0 when built by new
    used,       \* per value and use, the path the use was last made with
    \* --- the readers of the child's output (SpecLog) ---
    lPc,        \* the parent: "init", "spawned" (spawn_process returned), "started"
    pipe,       \* per stream, the lines written and not read yet
    wrote,      \* per stream, every line the child wrote, in order
    closedEnd,  \* per stream, whether the child closed its end
    reader,     \* per stream, the reader task: "none", "running", "exited"
    logged,     \* the records passed to the logger, in order
    \* --- RpcClient::single_response_blocking of the baker (SpecRpc) ---
    rpcIn,      \* what the last call met: the outcome of get, the status, the body
    rpcRet,     \* what the last call returned, or that it panicked
    \* --- ChainFeeder (SpecFeed) ---
    current_head, \* the field current_head
    blockMeta,  \* block_meta_storage: per block, its Meta if it has one
    blockStore, \* block_storage: the blocks stored
    opsDone,    \* operations_meta_storage: the blocks whose operations are complete
    fPc,        \* "idle", or "walk": feed_chain_to_protocol is in its loop
    cursor,     \* successor_block_hash
    applyCalls, \* the calls of apply_block, in order: the block and whether it succeeded
    published,  \* the BlockApplied events published, in order
    fRet,       \* what the last feed_chain_to_protocol returned
    warned,     \* number of warnings the handler logged
    feeds       \* number of FeedChainToProtocol messages handled

connVars == <<pc, req, outbox, inbox, chanOpen, elapsed, ticks, calls, ret, got, gotRe, gotLate, prevTag, prevOwn, healthyPings>>
watchVars == <<wValue, wClosed, wUnseen, mutex, aPc, aKind, aWait, aConn, aStartVal, aDone, everTrue>>
startVars == <<sPc, sockFile, children, sTimeout, waited, sRet, starts, preFile, spawnFile, seenFile, polls, handles>>
opVars == <<configuration, opPc, opName, opArgs, opStep, opSent, opSaved, opReplies, opRet, ops>>
errVars == <<hErr, hRet, hLog, handled>>
pathVars == <<socket_path, cloneOf, used>>
logVars == <<lPc, pipe, wrote, closedEnd, reader, logged>>
rpcVars == <<rpcIn, rpcRet>>
feedVars == <<current_head, blockMeta, blockStore, opsDone, fPc, cursor, applyCalls, published, fRet, warned, feeds>>
vars == <<connVars, watchVars, startVars, opVars, errVars, pathVars, logVars, rpcVars, feedVars>>

\* What the actions of one machine leave alone: the other machines.
notConn == <<watchVars, startVars, opVars, errVars, pathVars, logVars, rpcVars, feedVars>>
notWatch == <<connVars, startVars, opVars, errVars, pathVars, logVars, rpcVars, feedVars>>
notStart == <<connVars, watchVars, opVars, errVars, pathVars, logVars, rpcVars, feedVars>>
notOps == <<connVars, watchVars, startVars, errVars, pathVars, logVars, rpcVars, feedVars>>
notErr == <<connVars, watchVars, startVars, opVars, pathVars, logVars, rpcVars, feedVars>>
notPath == <<connVars, watchVars, startVars, opVars, errVars, logVars, rpcVars, feedVars>>
notLog == <<connVars, watchVars, startVars, opVars, errVars, pathVars, rpcVars, feedVars>>
notRpc == <<connVars, watchVars, startVars, opVars, errVars, pathVars, logVars, feedVars>>
notFeed == <<connVars, watchVars, startVars, opVars, errVars, pathVars, logVars, rpcVars>>

\* ---------------------------------------------------------------- bounds
MaxCalls == 2
MaxTicks == 2
NumAwaiters == 2
MaxStarts == 2
MaxOps == 2
MaxHandled == 2
MaxApis == 2
MaxLines == 2
NumBlocks == 3
MaxFeeds == 2
MaxBody == 2
\* The length of the buffer of read_error: 0x1000 in the source, scaled
\* down so that a body can be longer than the buffer.
BufLen == 1

\* ---------------------------------------------------------------- Option
Some(x) == <<x>>
None == <<>>

(***************************************************************************)
(* The request/response vocabulary, as used by the command methods.        *)
(***************************************************************************)
\* The request variants sent by the methods of ProtocolRunnerConnection.
Commands ==
    { "ApplyBlockCall", "ContextGetLatestContextHashes",
      "AssertEncodingForProtocolDataCall", "BeginApplicationCall",
      "BeginConstruction", "PreFilterOperation", "ValidateOperation",
      "ComputePathCall", "JsonEncodeApplyBlockResultMetadata",
      "JsonEncodeApplyBlockOperationsMetadata", "ProtocolRpcCall",
      "HelpersPreapplyOperationsCall", "HelpersPreapplyBlockCall",
      "ChangeRuntimeConfigurationCall", "InitProtocolContextCall",
      "InitProtocolContextIpcServer", "GenesisResultDataCall",
      "ContextGetKeyFromHistory", "ContextGetKeyValuesByPrefix",
      "ContextGetTreeByPrefix", "DumpContext", "RestoreContext",
      "Ping", "ShutdownCall" }

\* The commands whose arm binds no payload: `$resp => Ok(())`.
UnitCommands == { "ChangeRuntimeConfigurationCall", "Ping", "ShutdownCall" }

\* The commands expanded by the first rule of handle_request
\* ($resp($result), $error): the inner Err becomes ProtocolError::$error.
StdCommands ==
    Commands \ (UnitCommands \cup
                { "JsonEncodeApplyBlockResultMetadata",
                  "JsonEncodeApplyBlockOperationsMetadata",
                  "ProtocolRpcCall", "InitProtocolContextIpcServer" })

\* $resp of each method: the NodeMessage variant its match arm accepts.
ExpectedReply(cmd) ==
    CASE cmd = "ApplyBlockCall" -> "ApplyBlockResult"
      [] cmd = "ContextGetLatestContextHashes" -> "ContextGetLatestContextHashesResult"
      [] cmd = "AssertEncodingForProtocolDataCall" -> "AssertEncodingForProtocolDataResult"
      [] cmd = "BeginApplicationCall" -> "BeginApplicationResult"
      [] cmd = "BeginConstruction" -> "BeginConstructionResult"
      [] cmd = "PreFilterOperation" -> "PreFilterOperationResult"
      [] cmd = "ValidateOperation" -> "ValidateOperationResponse"
      [] cmd = "ComputePathCall" -> "ComputePathResponse"
      [] cmd = "JsonEncodeApplyBlockResultMetadata" -> "JsonEncodeApplyBlockResultMetadataResponse"
      [] cmd = "JsonEncodeApplyBlockOperationsMetadata" -> "JsonEncodeApplyBlockOperationsMetadata"
      [] cmd = "ProtocolRpcCall" -> "RpcResponse"
      [] cmd = "HelpersPreapplyOperationsCall" -> "HelpersPreapplyResponse"
      [] cmd = "HelpersPreapplyBlockCall" -> "HelpersPreapplyResponse"
      [] cmd = "ChangeRuntimeConfigurationCall" -> "ChangeRuntimeConfigurationResult"
      [] cmd = "InitProtocolContextCall" -> "InitProtocolContextResult"
      [] cmd = "InitProtocolContextIpcServer" -> "InitProtocolContextIpcServerResult"
      [] cmd = "GenesisResultDataCall" -> "CommitGenesisResultData"
      [] cmd = "ContextGetKeyFromHistory" -> "ContextGetKeyFromHistoryResult"
      [] cmd = "ContextGetKeyValuesByPrefix" -> "ContextGetKeyValuesByPrefixResult"
      [] cmd = "ContextGetTreeByPrefix" -> "ContextGetTreeByPrefixResult"
      [] cmd = "DumpContext" -> "DumpContextResponse"
      [] cmd = "RestoreContext" -> "RestoreContextResponse"
      [] cmd = "Ping" -> "PingResult"
      [] cmd = "ShutdownCall" -> "ShutdownResult"

\* $error of each method expanded by the first rule of handle_request.
ErrorVariantCopied(cmd) == "ApplyBlockError"
ErrorVariant(cmd) ==
    CASE cmd = "ApplyBlockCall" -> "ApplyBlockError"
      [] cmd = "ContextGetLatestContextHashes" -> "GetLastContextHashesError"
      [] cmd = "AssertEncodingForProtocolDataCall" -> "AssertEncodingForProtocolDataError"
      [] cmd = "BeginApplicationCall" -> "BeginApplicationError"
      [] cmd = "BeginConstruction" -> "BeginConstructionError"
      [] cmd = "PreFilterOperation" -> "PreFilterOperationError"
      [] cmd = "ValidateOperation" -> "ValidateOperationError"
      [] cmd = "ComputePathCall" -> "ComputePathError"
      [] cmd = "HelpersPreapplyOperationsCall" -> "HelpersPreapplyError"
      [] cmd = "HelpersPreapplyBlockCall" -> "HelpersPreapplyError"
      [] cmd = "InitProtocolContextCall" -> "OcamlStorageInitError"
      [] cmd = "GenesisResultDataCall" -> "GenesisResultDataError"
      [] cmd = "ContextGetKeyFromHistory" -> "ContextGetKeyFromHistoryError"
      [] cmd = "ContextGetKeyValuesByPrefix" -> "ContextGetKeyValuesByPrefixError"
      [] cmd = "ContextGetTreeByPrefix" -> "ContextGetKeyValuesByPrefixError"
      [] cmd = "DumpContext" -> "DumpContextError"
      [] cmd = "RestoreContext" -> "RestoreContextError"

\* The timeout constants of ProtocolRunnerConnection, in seconds.
DEFAULT_TIMEOUT == 10
DEFAULT_TIMEOUT_LONG == 60 * 2
DEFAULT_TIMEOUT_VERY_LONG == 60 * 30
APPLY_BLOCK_TIMEOUT == 60 * 240
GET_LATEST_CONTEXT_HASHES_TIMEOUT == APPLY_BLOCK_TIMEOUT
INIT_PROTOCOL_CONTEXT_TIMEOUT == DEFAULT_TIMEOUT_LONG
BEGIN_APPLICATION_TIMEOUT == DEFAULT_TIMEOUT_LONG
BEGIN_CONSTRUCTION_TIMEOUT == DEFAULT_TIMEOUT_LONG
VALIDATE_OPERATION_TIMEOUT == DEFAULT_TIMEOUT_LONG
CALL_PROTOCOL_RPC_TIMEOUT == DEFAULT_TIMEOUT_LONG
CALL_PROTOCOL_HEAVY_RPC_TIMEOUT == DEFAULT_TIMEOUT_VERY_LONG
COMPUTE_PATH_TIMEOUT == DEFAULT_TIMEOUT_LONG
JSON_ENCODE_DATA_TIMEOUT == DEFAULT_TIMEOUT_LONG
ASSERT_ENCODING_FOR_PROTOCOL_DATA_TIMEOUT == DEFAULT_TIMEOUT_LONG
PING_TIMEOUT == 1

\* $timeout of each method: the Option<Duration> it hands to try_receive.
TimeoutAlwaysDefault(cmd) == Some(DEFAULT_TIMEOUT)
Timeout(cmd) ==
    CASE cmd = "ApplyBlockCall" -> Some(APPLY_BLOCK_TIMEOUT)
      [] cmd = "ContextGetLatestContextHashes" -> Some(GET_LATEST_CONTEXT_HASHES_TIMEOUT)
      [] cmd = "AssertEncodingForProtocolDataCall" -> Some(ASSERT_ENCODING_FOR_PROTOCOL_DATA_TIMEOUT)
      [] cmd = "BeginApplicationCall" -> Some(BEGIN_APPLICATION_TIMEOUT)
      [] cmd = "BeginConstruction" -> Some(BEGIN_CONSTRUCTION_TIMEOUT)
      [] cmd = "PreFilterOperation" -> Some(VALIDATE_OPERATION_TIMEOUT)
      [] cmd = "ValidateOperation" -> Some(VALIDATE_OPERATION_TIMEOUT)
      [] cmd = "ComputePathCall" -> Some(COMPUTE_PATH_TIMEOUT)
      [] cmd = "JsonEncodeApplyBlockResultMetadata" -> Some(JSON_ENCODE_DATA_TIMEOUT)
      [] cmd = "JsonEncodeApplyBlockOperationsMetadata" -> Some(JSON_ENCODE_DATA_TIMEOUT)
      [] cmd = "ProtocolRpcCall" -> Some(CALL_PROTOCOL_HEAVY_RPC_TIMEOUT)
      [] cmd = "HelpersPreapplyOperationsCall" -> Some(CALL_PROTOCOL_RPC_TIMEOUT)
      [] cmd = "HelpersPreapplyBlockCall" -> Some(CALL_PROTOCOL_RPC_TIMEOUT)
      [] cmd = "ChangeRuntimeConfigurationCall" -> Some(DEFAULT_TIMEOUT)
      [] cmd = "InitProtocolContextCall" -> Some(INIT_PROTOCOL_CONTEXT_TIMEOUT)
      [] cmd = "InitProtocolContextIpcServer" -> Some(DEFAULT_TIMEOUT)
      [] cmd = "GenesisResultDataCall" -> Some(DEFAULT_TIMEOUT)
      [] cmd = "ContextGetKeyFromHistory" -> Some(DEFAULT_TIMEOUT)
      [] cmd = "ContextGetKeyValuesByPrefix" -> Some(DEFAULT_TIMEOUT_VERY_LONG)
      [] cmd = "ContextGetTreeByPrefix" -> Some(DEFAULT_TIMEOUT_VERY_LONG)
      [] cmd = "DumpContext" -> None
      [] cmd = "RestoreContext" -> None
      [] cmd = "Ping" -> Some(PING_TIMEOUT)
      [] cmd = "ShutdownCall" -> Some(DEFAULT_TIMEOUT)

\* Values carried by the messages: opaque payloads, failure strings and the
\* one request field an error refers to (ProtocolRpcRequest's context_path).
Payloads == { "p1", "p2" }
Reasons == { "bad_pred", "oops" }
Paths == { "/a", "/b" }
UnitPayload == "()"

\* Result<T, String> as carried by a reply variant.
OkResult(v) == [ok |-> TRUE, val |-> v]
ErrResult(r) == [ok |-> FALSE, val |-> r]
Results == { OkResult(v) : v \in Payloads } \cup { ErrResult(r) : r \in Reasons }

UnitVariants == { ExpectedReply(c) : c \in UnitCommands }
ResultVariants == { ExpectedReply(c) : c \in Commands \ UnitCommands }

\* NodeMessage: every reply variant the methods match on, with its payload.
NodeMessage ==
    [variant : ResultVariants, result : Results]
      \cup [variant : UnitVariants, result : { OkResult(UnitPayload) }]

\* ProtocolMessage: the request variant and, for ProtocolRpcCall, the
\* context_path of its ProtocolRpcRequest.
NoPath == "-"
ProtocolMessage ==
    [msg : Commands \ { "ProtocolRpcCall" }, path : { NoPath }]
      \cup [msg : { "ProtocolRpcCall" }, path : Paths]

NoReq == [msg |-> "none", path |-> "none"]
NoMsg == [variant |-> "none", result |-> OkResult("none")]
NoRet == [tag |-> "none"]

\* NodeMessage -> NodeMessageKind (`message.into()`): the variant's name,
\* without its payload.
NodeMessageKindOf(message) == message.variant

\* Result<_, ProtocolServiceError> returned by a method.
RetOk(v) == [tag |-> "Ok", value |-> v]
IpcErrorOf(reason) == [tag |-> "IpcError", reason |-> reason]
ProtocolErrorOf(reason) == [tag |-> "ProtocolError", reason |-> reason]
UnexpectedMessageOf(kind) == [tag |-> "UnexpectedMessage", message |-> kind]
ContextIpcServerErrorOf(message) == [tag |-> "ContextIpcServerError", message |-> message]

\* format!("Failure when starting context IPC server: {}", err)
IpcServerFailureMessage(err) == <<"Failure when starting context IPC server: ", err>>

\* The expression of the accepting arm, applied to the variant's payload.
ResultExpr(cmd, request, result) ==
    CASE cmd \in UnitCommands -> RetOk(UnitPayload)
      [] cmd \in StdCommands ->
            IF result.ok THEN RetOk(result.val)
            ELSE ProtocolErrorOf([kind |-> ErrorVariant(cmd), reason |-> result.val])
      [] cmd = "JsonEncodeApplyBlockResultMetadata" ->
            IF result.ok THEN RetOk(result.val)
            ELSE ProtocolErrorOf([kind |-> "FfiJsonEncoderError",
                                  caller |-> "apply_block_result_metadata",
                                  reason |-> result.val])
      [] cmd = "JsonEncodeApplyBlockOperationsMetadata" ->
            IF result.ok THEN RetOk(result.val)
            ELSE ProtocolErrorOf([kind |-> "FfiJsonEncoderError",
                                  caller |-> "apply_block_operations_metadata",
                                  reason |-> result.val])
      [] cmd = "ProtocolRpcCall" ->
            IF result.ok THEN RetOk(result.val)
            ELSE ProtocolErrorOf([kind |-> "ProtocolRpcError",
                                  reason |-> result.val,
                                  request_path |-> request.path])
      [] cmd = "InitProtocolContextIpcServer" ->
            IF result.ok THEN RetOk(result.val)
            ELSE ContextIpcServerErrorOf(IpcServerFailureMessage(result.val))

\* The match of handle_request on the received message.
HandleReplyCatchAllFirst(cmd, request, message) ==
    UnexpectedMessageOf(NodeMessageKindOf(message))
HandleReplyAcceptsAny(cmd, request, message) == ResultExpr(cmd, request, message.result)
HandleReply(cmd, request, message) ==
    IF message.variant = ExpectedReply(cmd)
    THEN ResultExpr(cmd, request, message.result)
    ELSE UnexpectedMessageOf(NodeMessageKindOf(message))

\* IpcIO::try_receive: Some(read_timeout) receives with that deadline,
\* None receives without one.
TryReceiveNoDeadline(read_timeout) == None
TryReceiveDeadline(read_timeout) ==
    IF read_timeout # None THEN Some(read_timeout[1]) ELSE None

\* The clock steps of the model: time advances by one of the deadlines.
TickSteps ==
    { PING_TIMEOUT, DEFAULT_TIMEOUT, DEFAULT_TIMEOUT_LONG,
      DEFAULT_TIMEOUT_VERY_LONG, APPLY_BLOCK_TIMEOUT }

Min(a, b) == IF a <= b THEN a ELSE b

\* The deadline of the pending try_receive.
Deadline == TryReceiveDeadline(Timeout(req.msg))

(***************************************************************************)
(* SpecConn: one ProtocolRunnerConnection and the runner at the other end  *)
(* of its channel.  A method is `send` followed by `try_receive`; the      *)
(* runner answers requests in order, and what a reply frame holds is       *)
(* chosen when the frame is read (nobody sees it earlier).                 *)
(***************************************************************************)
InitConn ==
    /\ pc = "idle"
    /\ req = NoReq
    /\ outbox = <<>>
    /\ inbox = <<>>
    /\ chanOpen = TRUE
    /\ elapsed = 0
    /\ ticks = 0
    /\ calls = 0
    /\ ret = NoRet
    /\ got = NoMsg
    /\ gotRe = 0
    /\ gotLate = FALSE
    /\ prevTag = "none"
    /\ prevOwn = FALSE
    /\ healthyPings = 0

\* A method called while another one awaits its reply (which `&mut self`
\* rules out).
CallSendWhileReceiving(request) ==
    /\ calls < MaxCalls
    /\ chanOpen
    /\ pc' = "receiving"
    /\ req' = request
    /\ calls' = calls + 1
    /\ outbox' = Append(outbox, calls + 1)
    /\ elapsed' = 0
    /\ ticks' = 0
    /\ ret' = NoRet
    /\ got' = NoMsg
    /\ gotRe' = 0
    /\ gotLate' = FALSE
    /\ prevTag' = ret.tag
    /\ prevOwn' = (gotRe = calls)
    /\ UNCHANGED <<inbox, chanOpen, healthyPings>>
    /\ UNCHANGED notConn

\* A method is called and `$io.send(&msg).await?` succeeds: the request is
\* on the channel and the method awaits try_receive.
CallSend(request) ==
    /\ pc = "idle"
    /\ calls < MaxCalls
    /\ chanOpen
    /\ pc' = "receiving"
    /\ req' = request
    /\ calls' = calls + 1
    /\ outbox' = Append(outbox, calls + 1)
    /\ elapsed' = 0
    /\ ticks' = 0
    /\ ret' = NoRet
    /\ got' = NoMsg
    /\ gotRe' = 0
    /\ gotLate' = FALSE
    /\ prevTag' = ret.tag
    /\ prevOwn' = (gotRe = calls)
    /\ UNCHANGED <<inbox, chanOpen, healthyPings>>
    /\ UNCHANGED notConn

\* A method whose send failed and that goes on to try_receive all the same.
CallSendFailThenReceives(request) ==
    /\ pc = "idle"
    /\ calls < MaxCalls
    /\ ~chanOpen
    /\ req' = request
    /\ calls' = calls + 1
    /\ ret' = IpcErrorOf("SendError")
    /\ got' = NoMsg
    /\ gotRe' = 0
    /\ gotLate' = FALSE
    /\ prevTag' = ret.tag
    /\ prevOwn' = (gotRe = calls)
    /\ healthyPings' = 0
    /\ elapsed' = 0
    /\ ticks' = 0
    /\ inbox' = IF inbox # <<>> THEN Tail(inbox) ELSE inbox
    /\ UNCHANGED <<pc, outbox, chanOpen>>
    /\ UNCHANGED notConn

\* A method is called and `$io.send(&msg).await?` fails: `?` returns the
\* IpcError at once.
CallSendFail(request) ==
    /\ pc = "idle"
    /\ calls < MaxCalls
    /\ ~chanOpen
    /\ req' = request
    /\ calls' = calls + 1
    /\ ret' = IpcErrorOf("SendError")
    /\ got' = NoMsg
    /\ gotRe' = 0
    /\ gotLate' = FALSE
    /\ prevTag' = ret.tag
    /\ prevOwn' = (gotRe = calls)
    /\ healthyPings' = 0
    /\ elapsed' = 0
    /\ ticks' = 0
    /\ UNCHANGED <<pc, outbox, inbox, chanOpen>>
    /\ UNCHANGED notConn

\* try_receive takes one frame off the channel, whatever the match makes of
\* it afterwards.
ConsumeFrameNever(frames, result) == frames
ConsumeFrameUnlessError(frames, result) ==
    IF result.tag = "ProtocolError" THEN frames ELSE Tail(frames)
ConsumeFrame(frames, result) == Tail(frames)

\* try_receive yields the next frame; the match of handle_request turns it
\* into the method's result.
Receive(message) ==
    /\ pc = "receiving"
    /\ inbox # <<>>
    /\ pc' = "idle"
    /\ got' = message
    /\ gotRe' = Head(inbox)
    /\ gotLate' = (Timeout(req.msg) # None /\ elapsed > Timeout(req.msg)[1])
    /\ inbox' = ConsumeFrame(inbox, HandleReply(req.msg, req, message))
    /\ ret' = HandleReply(req.msg, req, message)
    /\ healthyPings' = IF /\ req.msg = "Ping"
                          /\ message.variant = "PingResult"
                          /\ Head(inbox) = calls
                       THEN healthyPings + 1
                       ELSE 0
    /\ elapsed' = 0
    /\ ticks' = 0
    /\ UNCHANGED <<req, outbox, chanOpen, calls, prevTag, prevOwn>>
    /\ UNCHANGED notConn

\* No frame arrived before the deadline: try_receive fails and `?` returns
\* the error as ProtocolServiceError::IpcError.
ReceiveTimeout ==
    /\ pc = "receiving"
    /\ inbox = <<>>
    /\ Deadline # None
    /\ elapsed >= Deadline[1]
    /\ pc' = "idle"
    /\ ret' = IpcErrorOf("ReceiveMessageTimeout")
    /\ healthyPings' = 0
    /\ UNCHANGED <<req, outbox, inbox, chanOpen, elapsed, ticks, calls, got, gotRe, gotLate, prevTag, prevOwn>>
    /\ UNCHANGED notConn

\* The runner closed the channel and no frame is left: the read hits the
\* end of the stream.
ReceiveEof ==
    /\ pc = "receiving"
    /\ inbox = <<>>
    /\ ~chanOpen
    /\ pc' = "idle"
    /\ ret' = IpcErrorOf("ReceiveMessageError")
    /\ healthyPings' = 0
    /\ UNCHANGED <<req, outbox, inbox, chanOpen, elapsed, ticks, calls, got, gotRe, gotLate, prevTag, prevOwn>>
    /\ UNCHANGED notConn

\* Time passes while the method awaits a frame.  The timer of a deadline
\* fires when the deadline is reached, so the clock stops there.
Tick(d) ==
    /\ pc = "receiving"
    /\ inbox = <<>>
    /\ chanOpen
    /\ ticks < MaxTicks
    /\ Deadline # None => elapsed < Deadline[1]
    /\ elapsed' = IF Deadline # None THEN Min(elapsed + d, Deadline[1]) ELSE elapsed + d
    /\ ticks' = ticks + 1
    /\ UNCHANGED <<pc, req, outbox, inbox, chanOpen, calls, ret, got, gotRe, gotLate, prevTag, prevOwn, healthyPings>>
    /\ UNCHANGED notConn

\* The runner reads the oldest request and writes its reply frame.
RunnerReply ==
    /\ outbox # <<>>
    /\ chanOpen
    /\ inbox' = Append(inbox, Head(outbox))
    /\ outbox' = Tail(outbox)
    /\ UNCHANGED <<pc, req, chanOpen, elapsed, ticks, calls, ret, got, gotRe, gotLate, prevTag, prevOwn, healthyPings>>
    /\ UNCHANGED notConn

\* The runner closes its end of the channel (it exits or crashes).
RunnerClose ==
    /\ chanOpen
    /\ chanOpen' = FALSE
    /\ UNCHANGED <<pc, req, outbox, inbox, elapsed, ticks, calls, ret, got, gotRe, gotLate, prevTag, prevOwn, healthyPings>>
    /\ UNCHANGED notConn

NextConn ==
    \/ \E request \in ProtocolMessage : CallSend(request)
    \/ \E request \in ProtocolMessage : CallSendFail(request)
    \/ \E message \in NodeMessage : Receive(message)
    \/ ReceiveTimeout
    \/ ReceiveEof
    \/ \E d \in TickSteps : Tick(d)
    \/ RunnerReply
    \/ RunnerClose

(***************************************************************************)
(* SpecWatch: the readiness watch.  Every clone of the Api shares one      *)
(* tokio watch Receiver behind one tokio Mutex; the tasks below call       *)
(* wait_for_context_init, readable_connection (or its _sync variant, which *)
(* drives the same future to completion) or connect.  The Sender belongs   *)
(* to the node; it sends false or true while the value is false, true once *)
(* it is true, and may be dropped at any time.  The Receiver's version is  *)
(* only ever compared with the value's, so the two are kept as their       *)
(* difference, wUnseen.                                                    *)
(***************************************************************************)
Awaiters == 1..NumAwaiters
CallKinds == { "wait", "readable", "connect" }

InitWatch ==
    /\ wValue = FALSE
    /\ wClosed = FALSE
    /\ wUnseen = FALSE
    /\ mutex = 0
    /\ aPc = [a \in Awaiters |-> "idle"]
    /\ aKind = [a \in Awaiters |-> "none"]
    /\ aWait = [a \in Awaiters |-> "none"]
    /\ aConn = [a \in Awaiters |-> "none"]
    /\ aStartVal = [a \in Awaiters |-> FALSE]
    /\ aDone = [a \in Awaiters |-> 0]
    /\ everTrue = FALSE

\* Where a task goes when its wait_for_context_init has returned:
\* readable_connection drops the result (`let _ =`) and calls connect().
AfterWait(a, result) == IF aKind[a] = "readable" THEN "connect" ELSE "done"

\* A task calls wait_for_context_init, readable_connection or connect.
Begin(a, kind) ==
    /\ aPc[a] = "idle"
    /\ aKind' = [aKind EXCEPT ![a] = kind]
    /\ aStartVal' = [aStartVal EXCEPT ![a] = wValue]
    /\ aPc' = [aPc EXCEPT ![a] = IF kind = "connect" THEN "connect" ELSE "lock"]
    /\ UNCHANGED <<wValue, wClosed, wUnseen, mutex, aWait, aConn, aDone, everTrue>>
    /\ UNCHANGED notWatch

\* `self.status_watcher.lock().await` completes: the task holds the mutex.
LockNotExclusive(a) ==
    /\ aPc[a] = "lock"
    /\ mutex' = a
    /\ aPc' = [aPc EXCEPT ![a] = "borrow"]
    /\ UNCHANGED <<wValue, wClosed, wUnseen, aKind, aWait, aConn, aStartVal, aDone, everTrue>>
    /\ UNCHANGED notWatch
Lock(a) ==
    /\ aPc[a] = "lock"
    /\ mutex = 0
    /\ mutex' = a
    /\ aPc' = [aPc EXCEPT ![a] = "borrow"]
    /\ UNCHANGED <<wValue, wClosed, wUnseen, aKind, aWait, aConn, aStartVal, aDone, everTrue>>
    /\ UNCHANGED notWatch

\* The loop head: `if *watcher.borrow_and_update() { break; }`.  The value's
\* version is marked seen; a true value leaves the loop and returns Ok(()), which drops
\* the guard.
BorrowAlwaysWaits(a) ==
    /\ aPc[a] = "borrow"
    /\ wUnseen' = FALSE
    /\ aPc' = [aPc EXCEPT ![a] = "changed"]
    /\ UNCHANGED <<wValue, wClosed, mutex, aKind, aWait, aConn, aStartVal, aDone, everTrue>>
    /\ UNCHANGED notWatch
BorrowAndUpdate(a) ==
    /\ aPc[a] = "borrow"
    /\ wUnseen' = FALSE
    /\ IF wValue
       THEN /\ mutex' = 0
            /\ aWait' = [aWait EXCEPT ![a] = "Ok"]
            /\ aDone' = [aDone EXCEPT ![a] = @ + 1]
            /\ aPc' = [aPc EXCEPT ![a] = AfterWait(a, "Ok")]
       ELSE /\ aPc' = [aPc EXCEPT ![a] = "changed"]
            /\ UNCHANGED <<mutex, aWait, aDone>>
    /\ UNCHANGED <<wValue, wClosed, aKind, aConn, aStartVal, everTrue>>
    /\ UNCHANGED notWatch

\* `watcher.changed().await?`: an unseen version completes it with Ok and the
\* loop goes round; otherwise a dropped Sender completes it with RecvError,
\* which `?` returns; otherwise the task stays suspended.
ChangedReturnsOk(a) ==
    /\ aPc[a] = "changed"
    /\ wUnseen
    /\ wUnseen' = FALSE
    /\ mutex' = 0
    /\ aWait' = [aWait EXCEPT ![a] = "Ok"]
    /\ aDone' = [aDone EXCEPT ![a] = @ + 1]
    /\ aPc' = [aPc EXCEPT ![a] = AfterWait(a, "Ok")]
    /\ UNCHANGED <<wValue, wClosed, aKind, aConn, aStartVal, everTrue>>
    /\ UNCHANGED notWatch
ChangedIgnoresClosed(a) ==
    /\ aPc[a] = "changed"
    /\ wUnseen
    /\ wUnseen' = FALSE
    /\ aPc' = [aPc EXCEPT ![a] = "borrow"]
    /\ UNCHANGED <<wValue, wClosed, mutex, aKind, aWait, aConn, aStartVal, aDone, everTrue>>
    /\ UNCHANGED notWatch
Changed(a) ==
    /\ aPc[a] = "changed"
    /\ IF wUnseen
       THEN /\ wUnseen' = FALSE
            /\ aPc' = [aPc EXCEPT ![a] = "borrow"]
            /\ UNCHANGED <<mutex, aWait, aDone>>
       ELSE /\ wClosed
            /\ mutex' = 0
            /\ aWait' = [aWait EXCEPT ![a] = "RecvError"]
            /\ aDone' = [aDone EXCEPT ![a] = @ + 1]
            /\ aPc' = [aPc EXCEPT ![a] = AfterWait(a, "RecvError")]
            /\ UNCHANGED wUnseen
    /\ UNCHANGED <<wValue, wClosed, aKind, aConn, aStartVal, everTrue>>
    /\ UNCHANGED notWatch

\* connect(): a transport session to socket_path is opened, or the attempt
\* fails with an IpcError.  It reads neither the watch nor its mutex.
ConnectGated(a, ok) ==
    /\ aPc[a] = "connect"
    /\ wValue
    /\ mutex = 0
    /\ aConn' = [aConn EXCEPT ![a] = IF ok THEN "Ok" ELSE "IpcError"]
    /\ aPc' = [aPc EXCEPT ![a] = "done"]
    /\ UNCHANGED <<wValue, wClosed, wUnseen, mutex, aKind, aWait, aStartVal, aDone, everTrue>>
    /\ UNCHANGED notWatch
Connect(a, ok) ==
    /\ aPc[a] = "connect"
    /\ aConn' = [aConn EXCEPT ![a] = IF ok THEN "Ok" ELSE "IpcError"]
    /\ aPc' = [aPc EXCEPT ![a] = "done"]
    /\ UNCHANGED <<wValue, wClosed, wUnseen, mutex, aKind, aWait, aStartVal, aDone, everTrue>>
    /\ UNCHANGED notWatch

\* The holder of the Sender sends a value.
WriterSendAny(v) ==
    /\ ~wClosed
    /\ wValue' = v
    /\ wUnseen' = TRUE
    /\ everTrue' = (everTrue \/ v)
    /\ UNCHANGED <<wClosed, mutex, aPc, aKind, aWait, aConn, aStartVal, aDone>>
    /\ UNCHANGED notWatch
WriterSend(v) ==
    /\ ~wClosed
    /\ wValue => v
    /\ wValue' = v
    /\ wUnseen' = TRUE
    /\ everTrue' = (everTrue \/ v)
    /\ UNCHANGED <<wClosed, mutex, aPc, aKind, aWait, aConn, aStartVal, aDone>>
    /\ UNCHANGED notWatch

\* The Sender is dropped.
WriterDrop ==
    /\ ~wClosed
    /\ wClosed' = TRUE
    /\ UNCHANGED <<wValue, wUnseen, mutex, aPc, aKind, aWait, aConn, aStartVal, aDone, everTrue>>
    /\ UNCHANGED notWatch

\* The steps a task takes by itself once it has made its call.
TaskStep(a) ==
    \/ Lock(a)
    \/ BorrowAndUpdate(a)
    \/ Changed(a)
    \/ \E ok \in BOOLEAN : Connect(a, ok)

NextWatch ==
    \/ \E a \in Awaiters, kind \in CallKinds : Begin(a, kind)
    \/ \E a \in Awaiters : Lock(a)
    \/ \E a \in Awaiters : BorrowAndUpdate(a)
    \/ \E a \in Awaiters : Changed(a)
    \/ \E a \in Awaiters, ok \in BOOLEAN : Connect(a, ok)
    \/ \E v \in BOOLEAN : WriterSend(v)
    \/ WriterDrop

(***************************************************************************)
(* SpecStart: ProtocolRunnerApi::start on one Api.  The file system holds  *)
(* at most one file at socket_path.  A spawned child binds its socket at   *)
(* some later time (which creates the file, and fails if a file is there), *)
(* or never; it may exit at any time.  Nothing stops a child whose start   *)
(* failed, and nothing keeps start from being called again.                *)
(***************************************************************************)
\* Duration::from_secs(3), the default of wait_for_socket, in milliseconds.
DEFAULT_SOCKET_TIMEOUT_MS == 3000
\* Duration::from_millis(100), the sleep between two polls.
POLL_INTERVAL_MS == 100
\* A sleep lasts at least its duration; the scheduler may add to it.
SleepDurations == { POLL_INTERVAL_MS, POLL_INTERVAL_MS + 50 }
\* The `timeout` arguments start is called with.
StartTimeouts == { None, Some(0), Some(250) }

NoFile == [by |-> -1, born |-> -1]
\* A file left at socket_path by an earlier run of the node.
StaleFile == [by |-> 0, born |-> 0]
Unset == [by |-> -2, born |-> -2]
NoStartRet == [tag |-> "none"]

InitStart ==
    /\ sPc = "idle"
    /\ sockFile = NoFile
    /\ children = <<>>
    /\ sTimeout = None
    /\ waited = 0
    /\ sRet = NoStartRet
    /\ starts = 0
    /\ preFile = Unset
    /\ spawnFile = Unset
    /\ seenFile = Unset
    /\ polls = 0
    /\ handles = {}

\* std::fs::remove_file(&self.socket_path).ok(): the file, if any, is gone.
RemoveFileKeeps(file) == file
RemoveFile(file) == NoFile

\* start is called; spawn() first removes the socket file.
StartUnlink(timeout) ==
    /\ sPc = "idle"
    /\ starts < MaxStarts
    /\ starts' = starts + 1
    /\ sTimeout' = timeout
    /\ preFile' = sockFile
    /\ sockFile' = RemoveFile(sockFile)
    /\ spawnFile' = Unset
    /\ seenFile' = Unset
    /\ sRet' = NoStartRet
    /\ waited' = 0
    /\ polls' = 0
    /\ sPc' = "spawn"
    /\ UNCHANGED <<children, handles>>
    /\ UNCHANGED notStart

\* spawn_process launches the child; start goes on to wait_for_socket,
\* which reads the clock (`Instant::now()`).
SpawnProcessOk ==
    /\ sPc = "spawn"
    /\ children' = Append(children, "starting")
    /\ handles' = handles \cup { Len(children) + 1 }
    /\ spawnFile' = sockFile
    /\ waited' = 0
    /\ sPc' = "check"
    /\ UNCHANGED <<sockFile, sTimeout, sRet, starts, preFile, seenFile, polls>>
    /\ UNCHANGED notStart

\* The errors Command::spawn fails with.
IoErrors == { [kind |-> "NotFound", os |-> 2], [kind |-> "PermissionDenied", os |-> 13] }

\* err.to_string(): the text of the error, with its OS error number.
IoErrorToString(err) ==
    << IF err.kind = "NotFound" THEN "No such file or directory" ELSE "Permission denied",
       " (os error ", err.os, ")" >>

\* impl From<tokio::io::Error> for ProtocolRunnerError
FromIoErrorNoReason(err) == [tag |-> "SpawnError", reason |-> <<>>]
FromIoError(err) == [tag |-> "SpawnError", reason |-> IoErrorToString(err)]

\* Command::spawn fails: `?` converts the error and returns it from
\* spawn_process, from spawn and from start.
SpawnProcessFail(err) ==
    /\ sPc = "spawn"
    /\ sRet' = FromIoError(err)
    /\ sPc' = "idle"
    /\ UNCHANGED <<sockFile, children, sTimeout, waited, starts, preFile, spawnFile, seenFile, polls, handles>>
    /\ UNCHANGED notStart

\* timeout.unwrap_or_else(|| Duration::from_secs(3))
EffectiveTimeoutZero(timeout) == 0
EffectiveTimeout(timeout) ==
    IF timeout # None THEN timeout[1] ELSE DEFAULT_SOCKET_TIMEOUT_MS

\* `start.elapsed()` is read some time after the instant `waited` stands
\* for (the last wake-up, or Instant::now()): by nothing the clock can
\* tell, or by something.
ClockLags == { 0, 1 }

\* The loop of wait_for_socket with its two tests in the other order.
WaitCheckTimeoutFirst(lag) ==
    /\ sPc = "check"
    /\ polls' = polls + 1
    /\ IF waited + lag > EffectiveTimeout(sTimeout)
       THEN /\ sRet' = [tag |-> "SocketTimeout"]
            /\ sPc' = "idle"
            /\ handles' = handles \ { Len(children) }
            /\ UNCHANGED seenFile
       ELSE IF sockFile # NoFile
       THEN /\ seenFile' = sockFile
            /\ sRet' = [tag |-> "Ok", child |-> Len(children)]
            /\ sPc' = "idle"
            /\ UNCHANGED handles
       ELSE /\ sPc' = "sleep"
            /\ UNCHANGED <<sRet, seenFile, handles>>
    /\ UNCHANGED <<sockFile, children, sTimeout, waited, starts, preFile, spawnFile>>
    /\ UNCHANGED notStart

\* One round of the loop of wait_for_socket, up to its sleep.  When start
\* returns Ok the Child goes to the caller; when wait_for_socket fails, `?`
\* returns the error and the Child value is dropped, which does not stop
\* the process.
WaitCheck(lag) ==
    /\ sPc = "check"
    /\ polls' = polls + 1
    /\ IF sockFile # NoFile
       THEN /\ seenFile' = sockFile
            /\ sRet' = [tag |-> "Ok", child |-> Len(children)]
            /\ sPc' = "idle"
            /\ UNCHANGED handles
       ELSE IF waited + lag > EffectiveTimeout(sTimeout)
       THEN /\ sRet' = [tag |-> "SocketTimeout"]
            /\ sPc' = "idle"
            /\ handles' = handles \ { Len(children) }
            /\ UNCHANGED seenFile
       ELSE /\ sPc' = "sleep"
            /\ UNCHANGED <<sRet, seenFile, handles>>
    /\ UNCHANGED <<sockFile, children, sTimeout, waited, starts, preFile, spawnFile>>
    /\ UNCHANGED notStart

\* tokio::time::sleep(Duration::from_millis(100)).await
Sleep(d) ==
    /\ sPc = "sleep"
    /\ waited' = waited + d
    /\ sPc' = "check"
    /\ UNCHANGED <<sockFile, children, sTimeout, sRet, starts, preFile, spawnFile, seenFile, polls, handles>>
    /\ UNCHANGED notStart

\* A child starts listening: binding the socket creates the file at
\* socket_path, and fails when a file is already there.
ChildBind(c) ==
    /\ c \in DOMAIN children
    /\ children[c] = "starting"
    /\ IF sockFile = NoFile
       THEN /\ sockFile' = [by |-> c, born |-> Len(children)]
            /\ children' = [children EXCEPT ![c] = "listening"]
       ELSE /\ children' = [children EXCEPT ![c] = "failed"]
            /\ UNCHANGED sockFile
    /\ UNCHANGED <<sPc, sTimeout, waited, sRet, starts, preFile, spawnFile, seenFile, polls, handles>>
    /\ UNCHANGED notStart

\* A child exits (by itself, or killed through its handle); its socket file
\* stays behind.
ChildExit(c) ==
    /\ c \in DOMAIN children
    /\ children[c] \in { "starting", "listening" }
    /\ children' = [children EXCEPT ![c] = "exited"]
    /\ UNCHANGED <<sPc, sockFile, sTimeout, waited, sRet, starts, preFile, spawnFile, seenFile, polls, handles>>
    /\ UNCHANGED notStart

\* The steps wait_for_socket takes by itself.
WaitStep ==
    \/ \E lag \in ClockLags : WaitCheck(lag)
    \/ \E d \in SleepDurations : Sleep(d)

NextStart ==
    \/ \E timeout \in StartTimeouts : StartUnlink(timeout)
    \/ SpawnProcessOk
    \/ \E err \in IoErrors : SpawnProcessFail(err)
    \/ \E lag \in ClockLags : WaitCheck(lag)
    \/ \E d \in SleepDurations : Sleep(d)
    \/ \E c \in 1..MaxStarts : ChildBind(c)
    \/ \E c \in 1..MaxStarts : ChildExit(c)

(***************************************************************************)
(* SpecOps: the methods of ProtocolRunnerConnection that are built from    *)
(* other methods or compute before they send: init_protocol_for_write,     *)
(* init_protocol_for_read, init_context_ipc_server and                     *)
(* genesis_result_data.  Each command they issue is handle_request!: the   *)
(* request is passed to io.send (recorded in opSent whether or not the     *)
(* send succeeds) and the reply decides through HandleReply whether the    *)
(* operation goes on.                                                      *)
(***************************************************************************)
\* The storage configuration has an IPC socket path or none; each of the
\* three derivations from the environment succeeds or fails.
Configurations ==
    [ ipc_socket_path : { None, Some("/ctx.sock") },
      enable_testchain : BOOLEAN,
      main_chain_id : { "Err", "chain" },
      genesis_protocol : { "Err", "proto" },
      genesis_additional_data : { "Err", "ttl" } ]

DefaultConfiguration ==
    [ ipc_socket_path |-> Some("/ctx.sock"), enable_testchain |-> FALSE,
      main_chain_id |-> "chain", genesis_protocol |-> "proto",
      genesis_additional_data |-> "ttl" ]

OpNames ==
    { "init_protocol_for_write", "init_protocol_for_read",
      "init_context_ipc_server", "genesis_result_data" }

PatchContexts == { None, Some("patch") }
StatsPaths == { None, Some("/stats") }
ContextHashes == { "h1", "h2" }
NoArgs == [none |-> TRUE]

\* The replies the runner gives here: every payload of the variants the
\* operations expect, and PingResult for a variant none of them expects.
OpReplies ==
    { m \in NodeMessage :
        m.variant \in { "ChangeRuntimeConfigurationResult", "InitProtocolContextResult",
                        "InitProtocolContextIpcServerResult", "CommitGenesisResultData",
                        "PingResult" } }

InvalidDataErrorOf(message) == [tag |-> "InvalidDataError", message |-> message]

\* What a method does next: pass a request to handle_request!, or return.
SendOf(request) == [do |-> "send", request |-> request]
ReturnOf(r) == [do |-> "return", ret |-> r]

\* change_runtime_configuration(self.configuration.runtime_configuration.clone())
ChangeRuntimeConfiguration ==
    SendOf([msg |-> "ChangeRuntimeConfigurationCall", path |-> NoPath,
            params |-> "runtime_configuration"])

\* init_protocol_context: genesis_max_operations_ttl is derived first, and
\* its failure returns InvalidDataError; then InitProtocolContextCall(params).
InitProtocolContext(commit_genesis, readonly, patch_context, context_stats_db_path) ==
    IF configuration.genesis_additional_data = "Err"
    THEN ReturnOf(InvalidDataErrorOf("genesis_additional_data"))
    ELSE SendOf([msg |-> "InitProtocolContextCall", path |-> NoPath,
                 params |-> [ storage |-> configuration.ipc_socket_path,
                              genesis_max_operations_ttl |-> configuration.genesis_additional_data,
                              commit_genesis |-> commit_genesis,
                              enable_testchain |-> configuration.enable_testchain,
                              readonly |-> readonly,
                              patch_context |-> patch_context,
                              context_stats_db_path |-> context_stats_db_path ]])

\* init_context_ipc_server: the request is sent only if the storage
\* configuration has an IPC socket path.
InitContextIpcServerAlways ==
    SendOf([msg |-> "InitProtocolContextIpcServer", path |-> NoPath,
            params |-> configuration.ipc_socket_path])
InitContextIpcServer ==
    IF configuration.ipc_socket_path # None
    THEN SendOf([msg |-> "InitProtocolContextIpcServer", path |-> NoPath,
                 params |-> configuration.ipc_socket_path])
    ELSE ReturnOf(RetOk(UnitPayload))

\* init_protocol_for_write at the given position of its body; `last` is
\* the Ok result of the command before.
InitProtocolForWriteReturnsLast(step, args, last) ==
    CASE step = 1 -> ChangeRuntimeConfiguration
      [] step = 2 -> InitProtocolContext(args.commit_genesis, FALSE,
                                         args.patch_context, args.context_stats_db_path)
      [] step = 3 -> IF InitContextIpcServer.do = "send"
                     THEN InitContextIpcServer
                     ELSE ReturnOf(last)
      [] OTHER -> ReturnOf(last)
InitProtocolForWriteAt(step, args, last) ==
    CASE step = 1 -> ChangeRuntimeConfiguration
      [] step = 2 -> InitProtocolContext(args.commit_genesis, FALSE,
                                         args.patch_context, args.context_stats_db_path)
      [] step = 3 -> IF InitContextIpcServer.do = "send"
                     THEN InitContextIpcServer
                     ELSE ReturnOf(last)
      [] OTHER -> ReturnOf(opSaved)

\* init_protocol_for_read at the given position of its body.
InitProtocolForReadAsWrite(step, args, last) ==
    CASE step = 1 -> ChangeRuntimeConfiguration
      [] step = 2 -> InitProtocolContext(FALSE, FALSE, None, None)
      [] OTHER -> ReturnOf(last)
InitProtocolForReadAt(step, args, last) ==
    CASE step = 1 -> ChangeRuntimeConfiguration
      [] step = 2 -> InitProtocolContext(FALSE, TRUE, None, None)
      [] OTHER -> ReturnOf(last)

\* init_context_ipc_server called by itself.
InitContextIpcServerAt(step, args, last) ==
    CASE step = 1 -> InitContextIpcServer
      [] OTHER -> ReturnOf(last)

\* genesis_result_data: main_chain_id, genesis_protocol and
\* genesis_additional_data are derived, each failure returning
\* InvalidDataError, before genesis_result_data_raw is called.
GenesisResultDataParamsOf(genesis_context_hash) ==
    [ genesis_context_hash |-> genesis_context_hash,
      chain_id |-> configuration.main_chain_id,
      genesis_protocol_hash |-> configuration.genesis_protocol,
      genesis_max_operations_ttl |-> configuration.genesis_additional_data ]

GenesisResultDataUnchecked(step, args, last) ==
    CASE step = 1 -> SendOf([msg |-> "GenesisResultDataCall", path |-> NoPath,
                             params |-> GenesisResultDataParamsOf(args.genesis_context_hash)])
      [] OTHER -> ReturnOf(last)
GenesisResultDataAt(step, args, last) ==
    CASE step = 1 ->
            IF configuration.main_chain_id = "Err"
            THEN ReturnOf(InvalidDataErrorOf("main_chain_id"))
            ELSE IF configuration.genesis_protocol = "Err"
            THEN ReturnOf(InvalidDataErrorOf("genesis_protocol"))
            ELSE IF configuration.genesis_additional_data = "Err"
            THEN ReturnOf(InvalidDataErrorOf("genesis_additional_data"))
            ELSE SendOf([msg |-> "GenesisResultDataCall", path |-> NoPath,
                         params |-> GenesisResultDataParamsOf(args.genesis_context_hash)])
      [] OTHER -> ReturnOf(last)

OpAt(name, step, args, last) ==
    CASE name = "init_protocol_for_write" -> InitProtocolForWriteAt(step, args, last)
      [] name = "init_protocol_for_read" -> InitProtocolForReadAt(step, args, last)
      [] name = "init_context_ipc_server" -> InitContextIpcServerAt(step, args, last)
      [] name = "genesis_result_data" -> GenesisResultDataAt(step, args, last)

InitOps ==
    /\ configuration = DefaultConfiguration
    /\ opPc = "idle"
    /\ opName = "none"
    /\ opArgs = NoArgs
    /\ opStep = 0
    /\ opSent = <<>>
    /\ opSaved = NoRet
    /\ opReplies = <<>>
    /\ opRet = NoRet
    /\ ops = 0

\* The operation runs from the given position to its next await: it
\* returns, or it passes a request to io.send and, unless the send fails
\* (`?` returns the IpcError), awaits the reply.
RunFrom(name, step, args, last, sent, sendOk) ==
    LET todo == OpAt(name, step, args, last) IN
    IF todo.do = "return"
    THEN /\ opRet' = todo.ret
         /\ opPc' = "idle"
         /\ opSent' = sent
         /\ opStep' = step
    ELSE /\ opSent' = Append(sent, todo.request)
         /\ opStep' = step
         /\ IF sendOk
            THEN /\ opPc' = "recv"
                 /\ opRet' = NoRet
            ELSE /\ opPc' = "idle"
                 /\ opRet' = IpcErrorOf("SendError")

\* A composite operation is called on the idle connection and runs to its
\* first await.
CallOp(name, args, sendOk) ==
    /\ ops' = ops + 1
    /\ opName' = name
    /\ opArgs' = args
    /\ opSaved' = NoRet
    /\ opReplies' = <<>>
    /\ RunFrom(name, 1, args, NoRet, <<>>, sendOk)

InitProtocolForWrite(commit_genesis, patch_context, context_stats_db_path, sendOk) ==
    /\ opPc = "idle"
    /\ ops < MaxOps
    /\ CallOp("init_protocol_for_write",
              [commit_genesis |-> commit_genesis, patch_context |-> patch_context,
               context_stats_db_path |-> context_stats_db_path], sendOk)
    /\ UNCHANGED configuration
    /\ UNCHANGED notOps

InitProtocolForRead(sendOk) ==
    /\ opPc = "idle"
    /\ ops < MaxOps
    /\ CallOp("init_protocol_for_read", NoArgs, sendOk)
    /\ UNCHANGED configuration
    /\ UNCHANGED notOps

InitContextIpcServerCall(sendOk) ==
    /\ opPc = "idle"
    /\ ops < MaxOps
    /\ CallOp("init_context_ipc_server", NoArgs, sendOk)
    /\ UNCHANGED configuration
    /\ UNCHANGED notOps

GenesisResultData(genesis_context_hash, sendOk) ==
    /\ opPc = "idle"
    /\ ops < MaxOps
    /\ CallOp("genesis_result_data", [genesis_context_hash |-> genesis_context_hash], sendOk)
    /\ UNCHANGED configuration
    /\ UNCHANGED notOps

\* What try_receive yielded when it failed.
ReceiveFailure(reason) == [variant |-> "IpcError", result |-> reason]

\* The reply to the pending command is read and the operation goes on
\* whatever the command made of it.
OpReplyGoesOn(message, sendOk) ==
    /\ opPc = "recv"
    /\ opReplies' = Append(opReplies, message)
    /\ LET request == opSent[Len(opSent)]
           result == HandleReply(request.msg, request, message)
       IN /\ opSaved' = IF request.msg = "InitProtocolContextCall" THEN result ELSE opSaved
          /\ RunFrom(opName, opStep + 1, opArgs, result, opSent, sendOk)
    /\ UNCHANGED <<configuration, opName, opArgs, ops>>
    /\ UNCHANGED notOps

\* The reply to the pending command is read: an error returns from the
\* operation (`?`), an Ok lets it go on.
OpReply(message, sendOk) ==
    /\ opPc = "recv"
    /\ opReplies' = Append(opReplies, message)
    /\ LET request == opSent[Len(opSent)]
           result == HandleReply(request.msg, request, message)
       IN IF result.tag # "Ok"
          THEN /\ opRet' = result
               /\ opPc' = "idle"
               /\ UNCHANGED <<opSent, opStep, opSaved>>
          ELSE /\ opSaved' = IF request.msg = "InitProtocolContextCall" THEN result ELSE opSaved
               /\ RunFrom(opName, opStep + 1, opArgs, result, opSent, sendOk)
    /\ UNCHANGED <<configuration, opName, opArgs, ops>>
    /\ UNCHANGED notOps

\* try_receive fails (deadline passed, or the channel broke): `?` returns
\* the IpcError from the operation.
OpReceiveFail(reason) ==
    /\ opPc = "recv"
    /\ opRet' = IpcErrorOf(reason)
    /\ opPc' = "idle"
    /\ opReplies' = Append(opReplies, ReceiveFailure(reason))
    /\ UNCHANGED <<configuration, opName, opArgs, opStep, opSent, opSaved, ops>>
    /\ UNCHANGED notOps

NextOps ==
    \/ \E cg \in BOOLEAN, pcx \in PatchContexts, sp \in StatsPaths, sendOk \in BOOLEAN :
          InitProtocolForWrite(cg, pcx, sp, sendOk)
    \/ \E sendOk \in BOOLEAN : InitProtocolForRead(sendOk)
    \/ \E sendOk \in BOOLEAN : InitContextIpcServerCall(sendOk)
    \/ \E h \in ContextHashes, sendOk \in BOOLEAN : GenesisResultData(h, sendOk)
    \/ \E message \in OpReplies, sendOk \in BOOLEAN : OpReply(message, sendOk)
    \/ \E reason \in { "ReceiveMessageTimeout", "ReceiveMessageError" } : OpReceiveFail(reason)

(***************************************************************************)
(* SpecErr: handle_protocol_service_error applied to the errors a caller   *)
(* got, one after the other.                                               *)
(***************************************************************************)
LockPoisonErrorOf(message) == [tag |-> "LockPoisonError", message |-> message]

\* ProtocolServiceError: every variant, with the values the methods and
\* the From impls put in them.
ProtocolServiceError ==
    { IpcErrorOf(r) : r \in { "SendError", "ReceiveMessageTimeout", "ReceiveMessageError" } }
      \cup { ProtocolErrorOf([kind |-> ErrorVariant(c), reason |-> r]) :
                c \in StdCommands, r \in Reasons }
      \cup { UnexpectedMessageOf(NodeMessageKindOf(m)) : m \in NodeMessage }
      \cup { InvalidDataErrorOf(m) :
                m \in { "main_chain_id", "genesis_protocol", "genesis_additional_data" } }
      \cup { LockPoisonErrorOf(r) : r \in Reasons }
      \cup { ContextIpcServerErrorOf(IpcServerFailureMessage(r)) : r \in Reasons }

ErrOf(error) == [tag |-> "Err", error |-> error]
OkUnit == [tag |-> "Ok", value |-> UnitPayload]

\* The match of handle_protocol_service_error: what it returns and what it
\* passes to log_callback.
HandleErrorPropagateAll(error) == [ret |-> ErrOf(error), logged |-> <<>>]
HandleError(error) ==
    IF error.tag \in { "IpcError", "UnexpectedMessage" }
    THEN [ret |-> ErrOf(error), logged |-> <<>>]
    ELSE [ret |-> OkUnit, logged |-> <<error>>]

InitErr ==
    /\ hErr = NoRet
    /\ hRet = NoRet
    /\ hLog = <<>>
    /\ handled = 0

HandleProtocolServiceError(error) ==
    /\ handled < MaxHandled
    /\ handled' = handled + 1
    /\ hErr' = error
    /\ hRet' = HandleError(error).ret
    /\ hLog' = HandleError(error).logged
    /\ UNCHANGED notErr

NextErr == \E error \in ProtocolServiceError : HandleProtocolServiceError(error)

(***************************************************************************)
(* The socket path of ProtocolRunnerApi: the field is set by new, copied   *)
(* by the derived Clone, and read by spawn (remove_file, spawn_process),   *)
(* wait_for_socket (exists) and connect (IpcClient::new).                  *)
(***************************************************************************)
Apis == 1..MaxApis
SockPaths == { "/tmp/sock1", "/tmp/sock2" }
NoSock == "no path"
Uses == { "remove_file", "spawn_process", "exists", "connect" }

InitPath ==
    /\ socket_path = [a \in Apis |-> NoSock]
    /\ cloneOf = [a \in Apis |-> 0]
    /\ used = [a \in Apis |-> [u \in Uses |-> NoSock]]

\* The value exists.
Built(a) == socket_path[a] # NoSock
\* The next value to come into existence.
Fresh(a) == ~Built(a) /\ \A b \in 1..(a - 1) : Built(b)

\* new: socket_path is what async_ipc::temp_sock() returned.
ApiNew(a, temp_sock) ==
    /\ Fresh(a)
    /\ socket_path' = [socket_path EXCEPT ![a] = temp_sock]
    /\ UNCHANGED <<cloneOf, used>>
    /\ UNCHANGED notPath

\* #[derive(Clone)]: every field of the clone is the clone of the field.
ApiCloneNewSock(a, b) ==
    /\ Built(a)
    /\ Fresh(b)
    /\ \E temp_sock \in SockPaths :
          socket_path' = [socket_path EXCEPT ![b] = temp_sock]
    /\ cloneOf' = [cloneOf EXCEPT ![b] = a]
    /\ UNCHANGED used
    /\ UNCHANGED notPath
ApiClone(a, b) ==
    /\ Built(a)
    /\ Fresh(b)
    /\ socket_path' = [socket_path EXCEPT ![b] = socket_path[a]]
    /\ cloneOf' = [cloneOf EXCEPT ![b] = a]
    /\ UNCHANGED used
    /\ UNCHANGED notPath

\* start: spawn removes the file at self.socket_path and passes
\* &self.socket_path to spawn_process; when the child was spawned,
\* wait_for_socket polls self.socket_path.exists().
ApiStart(a, spawned) ==
    /\ Built(a)
    /\ used' = [used EXCEPT ![a] =
                  [u \in Uses |->
                      CASE u \in { "remove_file", "spawn_process" } -> socket_path[a]
                        [] u = "exists" /\ spawned -> socket_path[a]
                        [] OTHER -> used[a][u]]]
    /\ UNCHANGED <<socket_path, cloneOf>>
    /\ UNCHANGED notPath

\* connect: IpcClient::new(&self.socket_path).
ApiConnect(a) ==
    /\ Built(a)
    /\ used' = [used EXCEPT ![a]["connect"] = socket_path[a]]
    /\ UNCHANGED <<socket_path, cloneOf>>
    /\ UNCHANGED notPath

\* readable_connection: connect() when the wait for the context succeeded.
ApiReadableConnection(a, ready) ==
    /\ Built(a)
    /\ used' = [used EXCEPT ![a]["connect"] =
                  IF ready THEN socket_path[a] ELSE used[a]["connect"]]
    /\ UNCHANGED <<socket_path, cloneOf>>
    /\ UNCHANGED notPath

NextPath ==
    \/ \E a \in Apis, temp_sock \in SockPaths : ApiNew(a, temp_sock)
    \/ \E a, b \in Apis : ApiClone(a, b)
    \/ \E a \in Apis, spawned \in BOOLEAN : ApiStart(a, spawned)
    \/ \E a \in Apis : ApiConnect(a)
    \/ \E a \in Apis, ready \in BOOLEAN : ApiReadableConnection(a, ready)

(***************************************************************************)
(* The readers of the child's output: log_subprocess_output spawns one     *)
(* task per stream, which forwards the lines of the stream to the logger.  *)
(***************************************************************************)
Streams == { "stdout", "stderr" }
\* A line is a string, written as the sequence of its pieces.
Lines == { <<"ready">>, <<"STDOUT", " closed.">> }

Tag(s) == IF s = "stdout" THEN "OCaml-out" ELSE "OCaml-err"
Name(s) == IF s = "stdout" THEN "STDOUT" ELSE "STDERR"

\* info!(log, "[{}] {}", $tag, line)
LineRecordOut(s, line) == [level |-> "info", msg |-> <<"[", "OCaml-out", "] ">> \o line]
LineRecord(s, line) == [level |-> "info", msg |-> <<"[", Tag(s), "] ">> \o line]
\* info!(log, "[{}] {} closed.", $tag, $name)
ClosedRecord(s) == [level |-> "info", msg |-> <<"[", Tag(s), "] ", Name(s), " closed.">>]
\* warn!(log, "[{}] {} closed with error: {:?}", $tag, $name, err)
ErrorRecord(s) ==
    [level |-> "warn", msg |-> <<"[", Tag(s), "] ", Name(s), " closed with error: ", "err">>]
\* warn!(log, "Expected child process to have {}, but it was None", $name)
MissingRecord(s) ==
    [level |-> "warn",
     msg |-> <<"Expected child process to have ", Name(s), ", but it was None">>]

\* Command::stdout(Stdio::piped()) and stderr(Stdio::piped()): the spawned
\* Child has both streams.
Piped(s) == Some(s)

\* handle_output!: a reader task is spawned for a stream that is there.
HandleOutput(s, io) ==
    IF io # None
    THEN [reader |-> "running", logged |-> <<>>]
    ELSE [reader |-> "none", logged |-> <<MissingRecord(s)>>]

InitLog ==
    /\ lPc = "init"
    /\ pipe = [s \in Streams |-> <<>>]
    /\ wrote = [s \in Streams |-> <<>>]
    /\ closedEnd = [s \in Streams |-> FALSE]
    /\ reader = [s \in Streams |-> "none"]
    /\ logged = [s \in Streams |-> <<>>]

\* spawn_process: the child is spawned, log_subprocess_output spawns the
\* reader tasks, and the Child is returned.
LogSubprocessOutput ==
    /\ lPc = "init"
    /\ reader' = [s \in Streams |-> HandleOutput(s, Piped(s)).reader]
    /\ logged' = [s \in Streams |-> HandleOutput(s, Piped(s)).logged]
    /\ lPc' = "spawned"
    /\ UNCHANGED <<pipe, wrote, closedEnd>>
    /\ UNCHANGED notLog

\* start: after spawn, wait_for_socket ends and start returns.
StartReturnJoinsReaders ==
    /\ lPc = "spawned"
    /\ \A s \in Streams : reader[s] \in { "closed", "failed" }
    /\ lPc' = "started"
    /\ UNCHANGED <<pipe, wrote, closedEnd, reader, logged>>
    /\ UNCHANGED notLog
StartReturn ==
    /\ lPc = "spawned"
    /\ lPc' = "started"
    /\ UNCHANGED <<pipe, wrote, closedEnd, reader, logged>>
    /\ UNCHANGED notLog

\* The child writes a line to one of its streams.
ChildWrite(s, line) ==
    /\ lPc # "init"
    /\ ~closedEnd[s]
    /\ Len(wrote[s]) < MaxLines
    /\ pipe' = [pipe EXCEPT ![s] = Append(@, line)]
    /\ wrote' = [wrote EXCEPT ![s] = Append(@, line)]
    /\ UNCHANGED <<lPc, closedEnd, reader, logged>>
    /\ UNCHANGED notLog

\* The child closes its end of a stream (or exits).
ChildClose(s) ==
    /\ lPc # "init"
    /\ ~closedEnd[s]
    /\ closedEnd' = [closedEnd EXCEPT ![s] = TRUE]
    /\ UNCHANGED <<lPc, pipe, wrote, reader, logged>>
    /\ UNCHANGED notLog

\* Ok(Some(line)): the line is logged and the loop goes on.
NextLineSome(s) ==
    /\ reader[s] = "running"
    /\ pipe[s] # <<>>
    /\ logged' = [logged EXCEPT ![s] = Append(@, LineRecord(s, Head(pipe[s])))]
    /\ pipe' = [pipe EXCEPT ![s] = Tail(@)]
    /\ UNCHANGED <<lPc, wrote, closedEnd, reader>>
    /\ UNCHANGED notLog

\* Ok(None): the stream is at its end; the closure is logged and the task ends.
NextLineNone(s) ==
    /\ reader[s] = "running"
    /\ pipe[s] = <<>>
    /\ closedEnd[s]
    /\ logged' = [logged EXCEPT ![s] = Append(@, ClosedRecord(s))]
    /\ reader' = [reader EXCEPT ![s] = "closed"]
    /\ UNCHANGED <<lPc, pipe, wrote, closedEnd>>
    /\ UNCHANGED notLog

\* Err(err): the read failed; the error is logged and the task ends.
NextLineErr(s) ==
    /\ reader[s] = "running"
    /\ logged' = [logged EXCEPT ![s] = Append(@, ErrorRecord(s))]
    /\ reader' = [reader EXCEPT ![s] = "failed"]
    /\ UNCHANGED <<lPc, pipe, wrote, closedEnd>>
    /\ UNCHANGED notLog

\* The reader of a stream reads what the stream has for it.
ReaderStep(s) == NextLineSome(s) \/ NextLineNone(s)

NextLog ==
    \/ LogSubprocessOutput
    \/ StartReturn
    \/ \E s \in Streams, line \in Lines : ChildWrite(s, line)
    \/ \E s \in Streams : ChildClose(s)
    \/ \E s \in Streams : NextLineSome(s)
    \/ \E s \in Streams : NextLineNone(s)
    \/ \E s \in Streams : NextLineErr(s)

(***************************************************************************)
(* RpcClient::single_response_blocking of the baker: one GET, and what is  *)
(* made of the response.                                                   *)
(***************************************************************************)
\* The bytes of a body: an ASCII letter, the lead byte and the continuation
\* byte of a two-byte character, and the zero byte.
Bytes == { "a", "lead", "cont", "NUL" }
Bodies == UNION { [1..n -> Bytes] : n \in 0..MaxBody }
Statuses == { 200, 404, 500 }

\* StatusCode::is_success
IsSuccess(status) == status \in 200..299

\* str::from_utf8 succeeds.
RECURSIVE Utf8Valid(_)
Utf8Valid(bytes) ==
    IF bytes = <<>> THEN TRUE
    ELSE IF Head(bytes) \in { "a", "NUL" } THEN Utf8Valid(Tail(bytes))
    ELSE IF Head(bytes) = "lead"
    THEN Len(bytes) >= 2 /\ bytes[2] = "cont" /\ Utf8Valid(Tail(Tail(bytes)))
    ELSE FALSE

\* trim_end_matches('\0')
RECURSIVE TrimEndNul(_)
TrimEndNul(str) ==
    IF str # <<>> /\ str[Len(str)] = "NUL"
    THEN TrimEndNul(SubSeq(str, 1, Len(str) - 1))
    ELSE str

\* Result<_, RpcError>
RpcOk(v) == [tag |-> "Ok", value |-> v]
RpcErr(variant) == [tag |-> "Err", error |-> variant]
Unreachable == [tag |-> "panic", at |-> "unreachable!()"]
NoRpc == [tag |-> "none"]

\* read_error: one read into the zeroed buffer, which is then taken as
\* UTF-8 as a whole and trimmed of its zero bytes at the end.  `n` is the
\* number of bytes the read delivered.
ReadError(body, readOk, n) ==
    IF ~readOk THEN RpcErr("Io")
    ELSE LET buf == SubSeq(body, 1, n) \o [i \in 1..(BufLen - n) |-> "NUL"] IN
         IF ~Utf8Valid(buf) THEN RpcErr("Utf8")
         ELSE RpcOk([description |-> TrimEndNul(buf)])

\* The body of single_response_blocking.
SingleResponseBlockingBody(getOk, status, body, readOk, n, parseOk) ==
    IF ~getOk THEN RpcErr("Reqwest")
    ELSE IF IsSuccess(status)
    THEN IF parseOk THEN RpcOk("value") ELSE RpcErr("SerdeJson")
    ELSE IF ReadError(body, readOk, n).tag = "Err"
    THEN ReadError(body, readOk, n)
    ELSE Unreachable

InitRpc ==
    /\ rpcIn = NoRpc
    /\ rpcRet = NoRpc

\* single_response_blocking is called.  A panic ends the thread.
SingleResponseBlocking(getOk, status, body, readOk, n, parseOk) ==
    /\ rpcRet.tag # "panic"
    /\ n <= Len(body)
    /\ n = 0 => body = <<>>
    /\ rpcIn' = [tag |-> "call", getOk |-> getOk, status |-> status, body |-> body,
                 readOk |-> readOk, n |-> n]
    /\ rpcRet' = SingleResponseBlockingBody(getOk, status, body, readOk, n, parseOk)
    /\ UNCHANGED notRpc

NextRpc ==
    \E getOk \in BOOLEAN, status \in Statuses, body \in Bodies,
       readOk \in BOOLEAN, n \in 0..BufLen, parseOk \in BOOLEAN :
          SingleResponseBlocking(getOk, status, body, readOk, n, parseOk)

(***************************************************************************)
(* ChainFeeder: the handler of FeedChainToProtocol walks the successors of *)
(* current_head and applies the blocks that are ready.  The storages are   *)
(* shared with the actors that receive blocks and operations.              *)
(***************************************************************************)
\* Block 0 is the head the feeder is created with; block b + 1 is the
\* successor of block b.
Blocks == 1..NumBlocks
Hashes == 0..NumBlocks
NoMeta == [none |-> TRUE]
Meta(is_applied, successor) == [is_applied |-> is_applied, successor |-> successor]

\* The calls of feed_chain_to_protocol that are followed by `?`.
Fallible == { "meta_get", "block_get", "is_complete", "get_operations", "apply_block", "put" }
Failures == Fallible \cup { "none" }

FeedOk == [tag |-> "Ok"]
FeedErr(at) == [tag |-> "Err", at |-> at]
NoFeed == [tag |-> "none"]

InitFeed ==
    /\ current_head = 0
    /\ blockMeta = [h \in Hashes |-> IF h = 0 THEN Meta(TRUE, None) ELSE NoMeta]
    /\ blockStore = {}
    /\ opsDone = {}
    /\ fPc = "idle"
    /\ cursor = None
    /\ applyCalls = <<>>
    /\ published = <<>>
    /\ fRet = NoFeed
    /\ warned = 0
    /\ feeds = 0

\* What one round of the loop does with the block it took from
\* successor_block_hash: `err` is the call that failed ("none": none did),
\* `next` the new successor_block_hash, `apply` the apply_block calls made,
\* `done` whether the block was marked applied, published and made head.
Round(err, next, apply, done) == [err |-> err, next |-> next, apply |-> apply, done |-> done]

\* A loop that publishes and moves the head although the put failed.
WalkRoundPublishesAnyway(b, fail) ==
    IF fail = "meta_get" THEN Round("meta_get", None, <<>>, FALSE)
    ELSE IF blockMeta[b] = NoMeta THEN Round("none", None, <<>>, FALSE)
    ELSE IF blockMeta[b].is_applied THEN Round("none", blockMeta[b].successor, <<>>, FALSE)
    ELSE IF fail = "block_get" THEN Round("block_get", None, <<>>, FALSE)
    ELSE IF b \notin blockStore THEN Round("none", None, <<>>, FALSE)
    ELSE IF fail = "is_complete" THEN Round("is_complete", None, <<>>, FALSE)
    ELSE IF b \notin opsDone THEN Round("none", None, <<>>, FALSE)
    ELSE IF fail = "get_operations" THEN Round("get_operations", None, <<>>, FALSE)
    ELSE IF fail = "apply_block"
    THEN Round("apply_block", None, <<[block |-> b, ok |-> FALSE]>>, FALSE)
    ELSE IF fail = "put" THEN Round("put", None, <<[block |-> b, ok |-> TRUE]>>, TRUE)
    ELSE Round("none", blockMeta[b].successor, <<[block |-> b, ok |-> TRUE]>>, TRUE)

\* A loop that does not ask whether the operations are complete.
WalkRoundSkipsIsComplete(b, fail) ==
    IF fail = "meta_get" THEN Round("meta_get", None, <<>>, FALSE)
    ELSE IF blockMeta[b] = NoMeta THEN Round("none", None, <<>>, FALSE)
    ELSE IF blockMeta[b].is_applied THEN Round("none", blockMeta[b].successor, <<>>, FALSE)
    ELSE IF fail = "block_get" THEN Round("block_get", None, <<>>, FALSE)
    ELSE IF b \notin blockStore THEN Round("none", None, <<>>, FALSE)
    ELSE IF fail = "get_operations" THEN Round("get_operations", None, <<>>, FALSE)
    ELSE IF fail = "apply_block"
    THEN Round("apply_block", None, <<[block |-> b, ok |-> FALSE]>>, FALSE)
    ELSE IF fail = "put" THEN Round("put", None, <<[block |-> b, ok |-> TRUE]>>, FALSE)
    ELSE Round("none", blockMeta[b].successor, <<[block |-> b, ok |-> TRUE]>>, TRUE)

\* The body of `while let Some(block_hash) = successor_block_hash.take()`.
WalkRound(b, fail) ==
    IF fail = "meta_get" THEN Round("meta_get", None, <<>>, FALSE)
    ELSE IF blockMeta[b] = NoMeta THEN Round("none", None, <<>>, FALSE)
    ELSE IF blockMeta[b].is_applied THEN Round("none", blockMeta[b].successor, <<>>, FALSE)
    ELSE IF fail = "block_get" THEN Round("block_get", None, <<>>, FALSE)
    ELSE IF b \notin blockStore THEN Round("none", None, <<>>, FALSE)
    ELSE IF fail = "is_complete" THEN Round("is_complete", None, <<>>, FALSE)
    ELSE IF b \notin opsDone THEN Round("none", None, <<>>, FALSE)
    ELSE IF fail = "get_operations" THEN Round("get_operations", None, <<>>, FALSE)
    ELSE IF fail = "apply_block"
    THEN Round("apply_block", None, <<[block |-> b, ok |-> FALSE]>>, FALSE)
    ELSE IF fail = "put" THEN Round("put", None, <<[block |-> b, ok |-> TRUE]>>, FALSE)
    ELSE Round("none", blockMeta[b].successor, <<[block |-> b, ok |-> TRUE]>>, TRUE)

\* The handler takes a FeedChainToProtocol message: feed_chain_to_protocol
\* is called with current_head and reads the successor of that block.  An
\* error is logged as a warning and the handler returns.
ReceiveFeed(fail) ==
    /\ fPc = "idle"
    /\ feeds < MaxFeeds
    /\ fail \in { "none", "meta_get" }
    /\ feeds' = feeds + 1
    /\ IF fail = "meta_get"
       THEN /\ fRet' = FeedErr("meta_get")
            /\ warned' = warned + 1
            /\ UNCHANGED <<fPc, cursor>>
       ELSE /\ cursor' = IF blockMeta[current_head] # NoMeta
                         THEN blockMeta[current_head].successor
                         ELSE None
            /\ fPc' = "walk"
            /\ fRet' = NoFeed
            /\ UNCHANGED warned
    /\ UNCHANGED <<current_head, blockMeta, blockStore, opsDone, applyCalls, published>>
    /\ UNCHANGED notFeed

\* One round of the loop, or its end when successor_block_hash is None.
Walk(fail) ==
    /\ fPc = "walk"
    /\ IF cursor = None
       THEN /\ fRet' = FeedOk
            /\ fPc' = "idle"
            /\ UNCHANGED <<current_head, blockMeta, cursor, applyCalls, published, warned>>
       ELSE LET b == cursor[1]
                round == WalkRound(b, fail)
            IN /\ applyCalls' = applyCalls \o round.apply
               /\ blockMeta' = IF round.done
                               THEN [blockMeta EXCEPT ![b] = Meta(TRUE, blockMeta[b].successor)]
                               ELSE blockMeta
               /\ published' = IF round.done THEN Append(published, b) ELSE published
               /\ current_head' = IF round.done THEN b ELSE current_head
               /\ IF round.err # "none"
                  THEN /\ fRet' = FeedErr(round.err)
                       /\ warned' = warned + 1
                       /\ fPc' = "idle"
                       /\ cursor' = None
                  ELSE /\ cursor' = round.next
                       /\ UNCHANGED <<fRet, warned, fPc>>
    /\ UNCHANGED <<blockStore, opsDone, feeds>>
    /\ UNCHANGED notFeed

\* Another actor stores a block: the block goes to block storage, gets its
\* metadata, and becomes the successor in the metadata of the block before.
BlockArrives(b) ==
    /\ b \notin blockStore
    /\ blockStore' = blockStore \cup { b }
    /\ blockMeta' =
          [h \in Hashes |->
              IF h = b /\ blockMeta[h] = NoMeta THEN Meta(FALSE, None)
              ELSE IF h = b - 1
              THEN IF blockMeta[h] = NoMeta
                   THEN Meta(FALSE, Some(b))
                   ELSE Meta(blockMeta[h].is_applied, Some(b))
              ELSE blockMeta[h]]
    /\ UNCHANGED <<current_head, opsDone, fPc, cursor, applyCalls, published, fRet, warned, feeds>>
    /\ UNCHANGED notFeed

\* Another actor stores the last missing operations of a block.
OperationsComplete(b) ==
    /\ b \in blockStore
    /\ b \notin opsDone
    /\ opsDone' = opsDone \cup { b }
    /\ UNCHANGED <<current_head, blockMeta, blockStore, fPc, cursor, applyCalls, published, fRet, warned, feeds>>
    /\ UNCHANGED notFeed

NextFeed ==
    \/ \E fail \in Failures : ReceiveFeed(fail)
    \/ \E fail \in Failures : Walk(fail)
    \/ \E b \in Blocks : BlockArrives(b)
    \/ \E b \in Blocks : OperationsComplete(b)

(***************************************************************************)
(* The specifications.                                                     *)
(***************************************************************************)
Init ==
    /\ InitConn /\ InitWatch /\ InitStart /\ InitOps /\ InitErr
    /\ InitPath /\ InitLog /\ InitRpc /\ InitFeed

\* An earlier run of the node may have left a file at socket_path.
InitWithStaleFile ==
    /\ InitConn
    /\ InitWatch
    /\ InitOps
    /\ InitErr
    /\ InitPath
    /\ InitLog
    /\ InitRpc
    /\ InitFeed
    /\ sPc = "idle"
    /\ sockFile \in { NoFile, StaleFile }
    /\ children = <<>>
    /\ sTimeout = None
    /\ waited = 0
    /\ sRet = NoStartRet
    /\ starts = 0
    /\ preFile = Unset
    /\ spawnFile = Unset
    /\ seenFile = Unset
    /\ polls = 0
    /\ handles = {}

SpecConn == Init /\ [][NextConn]_vars

SpecWatch == Init /\ [][NextWatch]_vars

\* The tokio runtime polls every spawned task that can make progress, and
\* its Mutex hands the lock over in FIFO order.
SpecWatchFair == SpecWatch /\ \A a \in Awaiters : WF_vars(TaskStep(a))

\* The connection is built with any configuration.
InitWithAnyConfiguration ==
    /\ InitConn
    /\ InitWatch
    /\ InitStart
    /\ InitErr
    /\ InitPath
    /\ InitLog
    /\ InitRpc
    /\ InitFeed
    /\ configuration \in Configurations
    /\ opPc = "idle"
    /\ opName = "none"
    /\ opArgs = NoArgs
    /\ opStep = 0
    /\ opSent = <<>>
    /\ opSaved = NoRet
    /\ opReplies = <<>>
    /\ opRet = NoRet
    /\ ops = 0

SpecOps == InitWithAnyConfiguration /\ [][NextOps]_vars

SpecErr == Init /\ [][NextErr]_vars

SpecStart == InitWithStaleFile /\ [][NextStart]_vars

\* The task in wait_for_socket is polled again when its sleep is over.
SpecStartFair == SpecStart /\ WF_vars(WaitStep)

SpecPath == Init /\ [][NextPath]_vars

SpecLog == Init /\ [][NextLog]_vars

SpecRpc == Init /\ [][NextRpc]_vars

SpecFeed == Init /\ [][NextFeed]_vars

\* The task in start is polled until it returns, and a reader task is
\* polled when its stream has a line or is at its end.  Nothing makes the
\* child write or close a stream, and nothing makes a read fail.
SpecLogFair ==
    SpecLog /\ WF_vars(StartReturn) /\ \A s \in Streams : WF_vars(ReaderStep(s))

(***************************************************************************)
(* The command table of the specification (section 4.E), row by row: the   *)
(* reply variant, the error kind and the timeout in seconds (None: no      *)
(* deadline) it gives for each command.  The claims are stated against it. *)
(***************************************************************************)
Row(cmd, reply, kind, timeout) ==
    [cmd |-> cmd, reply |-> reply, kind |-> kind, timeout |-> timeout]

CommandTable ==
    { Row("ApplyBlockCall", "ApplyBlockResult", "ApplyBlockError", Some(14400)),
      Row("ContextGetLatestContextHashes", "ContextGetLatestContextHashesResult", "GetLastContextHashesError", Some(14400)),
      Row("AssertEncodingForProtocolDataCall", "AssertEncodingForProtocolDataResult", "AssertEncodingForProtocolDataError", Some(120)),
      Row("BeginApplicationCall", "BeginApplicationResult", "BeginApplicationError", Some(120)),
      Row("BeginConstruction", "BeginConstructionResult", "BeginConstructionError", Some(120)),
      Row("PreFilterOperation", "PreFilterOperationResult", "PreFilterOperationError", Some(120)),
      Row("ValidateOperation", "ValidateOperationResponse", "ValidateOperationError", Some(120)),
      Row("ComputePathCall", "ComputePathResponse", "ComputePathError", Some(120)),
      Row("JsonEncodeApplyBlockResultMetadata", "JsonEncodeApplyBlockResultMetadataResponse", "FfiJsonEncoderError", Some(120)),
      Row("JsonEncodeApplyBlockOperationsMetadata", "JsonEncodeApplyBlockOperationsMetadata", "FfiJsonEncoderError", Some(120)),
      Row("ProtocolRpcCall", "RpcResponse", "ProtocolRpcError", Some(1800)),
      Row("HelpersPreapplyOperationsCall", "HelpersPreapplyResponse", "HelpersPreapplyError", Some(120)),
      Row("HelpersPreapplyBlockCall", "HelpersPreapplyResponse", "HelpersPreapplyError", Some(120)),
      Row("ChangeRuntimeConfigurationCall", "ChangeRuntimeConfigurationResult", "-", Some(10)),
      Row("InitProtocolContextCall", "InitProtocolContextResult", "OcamlStorageInitError", Some(120)),
      Row("InitProtocolContextIpcServer", "InitProtocolContextIpcServerResult", "ContextIpcServerError", Some(10)),
      Row("GenesisResultDataCall", "CommitGenesisResultData", "GenesisResultDataError", Some(10)),
      Row("ContextGetKeyFromHistory", "ContextGetKeyFromHistoryResult", "ContextGetKeyFromHistoryError", Some(10)),
      Row("ContextGetKeyValuesByPrefix", "ContextGetKeyValuesByPrefixResult", "ContextGetKeyValuesByPrefixError", Some(1800)),
      Row("ContextGetTreeByPrefix", "ContextGetTreeByPrefixResult", "ContextGetKeyValuesByPrefixError", Some(1800)),
      Row("DumpContext", "DumpContextResponse", "DumpContextError", None),
      Row("RestoreContext", "RestoreContextResponse", "RestoreContextError", None),
      Row("Ping", "PingResult", "-", Some(1)),
      Row("ShutdownCall", "ShutdownResult", "-", Some(10)) }

TableOf(cmd) == CHOOSE r \in CommandTable : r.cmd = cmd

\* The last call on the connection has returned after reading a frame.
ReturnedWithReply == pc = "idle" /\ ret # NoRet /\ got # NoMsg

\* The frame read by the last call is the table's reply variant for its command.
GotExpected == got.variant = TableOf(req.msg).reply

(***************************************************************************)
(* Claims about the command methods (SpecConn).                            *)
(***************************************************************************)
\* C1: for every command, when the reply read by the call is the command's
\* expected reply variant carrying a success payload, the call returns
\* exactly that payload.
C1_SuccessPayloadReturned ==
    (ReturnedWithReply /\ GotExpected /\ got.result.ok)
        => ret = RetOk(got.result.val)

\* C1 witness: apply_block read ApplyBlockResult(Ok("p2")) and returned "p2".
C1_Witness ==
    /\ ReturnedWithReply
    /\ req.msg = "ApplyBlockCall"
    /\ got = [variant |-> "ApplyBlockResult", result |-> OkResult("p2")]
    /\ ret = RetOk("p2")

\* C2: for every command, when the reply read is any variant other than the
\* command's expected reply variant, the call returns UnexpectedMessage
\* naming the variant received (so neither a success nor a ProtocolError).
C2_OtherVariantIsUnexpected ==
    (ReturnedWithReply /\ ~GotExpected)
        => ret = UnexpectedMessageOf(got.variant)

\* C2 witness: ApplyBlockCall answered by PingResult.
C2_Witness ==
    /\ ReturnedWithReply
    /\ req.msg = "ApplyBlockCall"
    /\ got.variant = "PingResult"
    /\ ret = UnexpectedMessageOf("PingResult")

\* The call returned ProtocolError of the table's kind for its command,
\* with the failure string of the reply as its reason.
ReturnsTableProtocolError ==
    /\ ret.tag = "ProtocolError"
    /\ ret.reason.kind = TableOf(req.msg).kind
    /\ ret.reason.reason = got.result.val

\* C3 (as stated): for every command whose reply variant carries an inner
\* result, the expected variant carrying Err(reason) makes the call return
\* ProtocolError{kind, reason}, kind the table's, reason unchanged;
\* InitProtocolContextIpcServer included.
C3_Original ==
    (ReturnedWithReply /\ GotExpected /\ ~got.result.ok)
        => ReturnsTableProtocolError

\* C3 (amended): the same for every such command except
\* InitProtocolContextIpcServer, whose inner Err(reason) makes the call
\* return ContextIpcServerError with the message "Failure when starting
\* context IPC server: " followed by the reason.
C3_InnerErrMapped ==
    (ReturnedWithReply /\ GotExpected /\ ~got.result.ok)
        => IF req.msg = "InitProtocolContextIpcServer"
           THEN ret = ContextIpcServerErrorOf(
                        <<"Failure when starting context IPC server: ", got.result.val>>)
           ELSE ReturnsTableProtocolError

\* C3 witness: get_context_tree_by_prefix read its reply variant with
\* Err("oops") and returned ContextGetKeyValuesByPrefixError{"oops"}.
C3_Witness ==
    /\ ReturnedWithReply
    /\ req.msg = "ContextGetTreeByPrefix"
    /\ got = [variant |-> "ContextGetTreeByPrefixResult", result |-> ErrResult("oops")]
    /\ ret = ProtocolErrorOf([kind |-> "ContextGetKeyValuesByPrefixError", reason |-> "oops"])

\* C4: for every command with a finite timeout, a call never waits for a
\* frame past its timeout; a call that returns without having read a frame
\* returns IpcError; and a call returns success only from a frame that
\* arrived within the timeout.
C4_TimeoutIsIpcError ==
    (req # NoReq /\ Timeout(req.msg) # None)
        => /\ pc = "receiving" => elapsed <= Timeout(req.msg)[1]
           /\ (pc = "idle" /\ ret # NoRet /\ got = NoMsg) => ret.tag = "IpcError"
           /\ (pc = "idle" /\ ret.tag = "Ok") => (got # NoMsg /\ ~gotLate)

\* C4 witness: ping timed out after its 1 s, and the runner's reply to that
\* Ping arrived afterwards; the call's result is still the IpcError.
C4_Witness ==
    /\ pc = "idle"
    /\ req.msg = "Ping"
    /\ ret = IpcErrorOf("ReceiveMessageTimeout")
    /\ elapsed = 1
    /\ inbox # <<>>
    /\ Head(inbox) = calls

(***************************************************************************)
(* Claims about the readiness watch (SpecWatch, SpecWatchFair).            *)
(***************************************************************************)
\* The task called wait_for_context_init, directly or through
\* readable_connection.
Waits(a) == aKind[a] \in { "wait", "readable" }
\* The task's wait_for_context_init is in progress.
Waiting(a) == aPc[a] \in { "lock", "borrow", "changed" }

\* C5: readable_connection calls connect() only after its wait has observed
\* the readiness value true, and opens no session while the value has never
\* been true - also when the Sender is dropped while the value is false.
C5_ReadableConnectionGated ==
    \A a \in Awaiters :
        aKind[a] = "readable"
            => /\ (aPc[a] = "connect" \/ aConn[a] # "none") => aWait[a] = "Ok"
               /\ aConn[a] = "Ok" => everTrue

\* C6: an awaiter that starts while the value is false does not complete
\* with success before the value is true, completes at most once, and once
\* the value is true it eventually completes with success.
C6_AwaiterCompletesAfterFlip ==
    /\ [](\A a \in Awaiters :
            (Waits(a) /\ ~aStartVal[a])
                => /\ aWait[a] = "Ok" => wValue
                   /\ aDone[a] <= 1)
    /\ \A a \in Awaiters :
            (Waiting(a) /\ ~aStartVal[a] /\ wValue)
                ~> (aWait[a] = "Ok" /\ aDone[a] = 1)

\* C6 witness: an awaiter that started while the value was false has
\* completed with success, once, after the flip.
C6_Witness ==
    \E a \in Awaiters :
        /\ aKind[a] = "wait"
        /\ ~aStartVal[a]
        /\ wValue
        /\ aWait[a] = "Ok"
        /\ aDone[a] = 1

\* C7: an awaiter that starts when the value is already true never waits
\* for a change of the watch and never fails, and it completes with success
\* without any further send - also with other awaiters in progress.
C7_AwaiterAfterFlipDoesNotSuspend ==
    /\ [](\A a \in Awaiters :
            (Waits(a) /\ aStartVal[a])
                => (aPc[a] # "changed" /\ aWait[a] # "RecvError"))
    /\ \A a \in Awaiters :
            (Waiting(a) /\ aStartVal[a]) ~> (aWait[a] = "Ok")

\* C7 witness: an awaiter that started with the value true has completed
\* with success while another awaiter is still in progress.
C7_Witness ==
    \E a, b \in Awaiters :
        /\ a # b
        /\ Waits(a)
        /\ aStartVal[a]
        /\ aWait[a] = "Ok"
        /\ Waiting(b)

\* C8: once the Sender is dropped with the value still false, no wait ends
\* in success, and every pending or later wait_for_context_init eventually
\* returns the channel-closed error.
C8_DroppedSenderYieldsRecvError ==
    /\ [](\A a \in Awaiters :
            (wClosed /\ ~wValue /\ aWait[a] # "none") => aWait[a] = "RecvError")
    /\ \A a \in Awaiters :
            (wClosed /\ ~wValue /\ Waiting(a)) ~> (aWait[a] = "RecvError")

\* C8 witness: the Sender was dropped with the value false and a wait has
\* returned the channel-closed error.
C8_Witness ==
    \E a \in Awaiters :
        /\ wClosed
        /\ ~wValue
        /\ aKind[a] = "wait"
        /\ aWait[a] = "RecvError"

C10_SocketFileIsThisChilds ==
    sRet.tag = "Ok"
        => /\ seenFile.born >= sRet.child
           /\ seenFile.by = sRet.child

\* The timeout of the specification, in milliseconds: the one given, 3 s
\* when none is given.
GivenTimeoutMs == IF sTimeout = None THEN 3000 ELSE sTimeout[1]

\* wait_for_socket is in progress.
WaitingForSocket == sPc \in { "check", "sleep" }

\* C11: while no file appears at socket_path the wait ends with
\* SocketTimeout; SocketTimeout is returned only when at least the given
\* timeout (3 s when none is given) has passed since the wait began; two
\* existence checks are at least 100 ms apart; and Ok is returned only on a
\* file that exists.
C11_NoSocketTimesOut ==
    /\ [](sRet.tag = "SocketTimeout" => waited >= GivenTimeoutMs)
    /\ [](polls >= 1 => waited >= 100 * (polls - 1))
    /\ [](sRet.tag = "Ok" => seenFile.by >= 0)
    /\ WaitingForSocket ~> (sRet.tag = "SocketTimeout" \/ sockFile # NoFile)

\* C11 witness: start was given no timeout, no file ever appeared, and it
\* returned SocketTimeout after more than thirty polls.
C11_Witness ==
    /\ sRet.tag = "SocketTimeout"
    /\ sTimeout = None
    /\ sockFile = NoFile
    /\ polls > 30

\* C12: when the file is there at the first existence check, that check
\* ends the wait with Ok, no sleep having been made, whatever the timeout;
\* and SocketTimeout is never returned before an existence check was made.
C12_PresentSocketIsOkAtOnce ==
    /\ [][(sPc = "check" /\ polls = 0 /\ sockFile # NoFile /\ polls' = 1)
            => (sRet'.tag = "Ok" /\ waited' = 0 /\ sPc' = "idle")]_vars
    /\ [](sRet.tag = "SocketTimeout" => polls >= 1)

\* C12 witness: start was given a zero timeout, the file was there at the
\* first check, and start returned Ok on that check.
C12_Witness ==
    /\ sRet.tag = "Ok"
    /\ sTimeout = Some(0)
    /\ polls = 1
    /\ waited = 0

\* The process of child c is running.
Running(c) == children[c] \in { "starting", "listening" }

\* C13: when start has spawned its child and returned SocketTimeout, the
\* child is not running with its handle dropped.
C13_ChildNotLeaked ==
    sRet.tag = "SocketTimeout"
        => (Running(Len(children)) => Len(children) \in handles)

(***************************************************************************)
(* Claims about the composite operations (SpecOps).                        *)
(***************************************************************************)
\* The request variants of a sequence of requests.
MsgsOf(sent) == [i \in DOMAIN sent |-> sent[i].msg]

IsPrefix(p, q) == Len(p) <= Len(q) /\ \A i \in DOMAIN p : p[i] = q[i]

\* The operation called last has returned Ok.
OpReturnedOk(name) == opName = name /\ opPc = "idle" /\ opRet.tag = "Ok"

\* C14: when init_protocol_for_write has returned Ok, the requests it sent
\* are ChangeRuntimeConfigurationCall, InitProtocolContextCall with
\* readonly = false and, exactly when the storage configuration has an IPC
\* socket path, InitProtocolContextIpcServer - in this order; until then
\* what it has sent is a prefix of that sequence.
C14_InitForWriteSequence ==
    LET expected ==
            IF configuration.ipc_socket_path # None
            THEN << "ChangeRuntimeConfigurationCall", "InitProtocolContextCall",
                    "InitProtocolContextIpcServer" >>
            ELSE << "ChangeRuntimeConfigurationCall", "InitProtocolContextCall" >>
    IN opName = "init_protocol_for_write"
          => /\ IsPrefix(MsgsOf(opSent), expected)
             /\ Len(opSent) >= 2 => opSent[2].params.readonly = FALSE
             /\ OpReturnedOk("init_protocol_for_write") => MsgsOf(opSent) = expected

\* C14 witness: init_protocol_for_write returned Ok after three requests.
C14_Witness ==
    /\ OpReturnedOk("init_protocol_for_write")
    /\ configuration.ipc_socket_path # None
    /\ Len(opSent) = 3

\* C15: init_protocol_for_read sends ChangeRuntimeConfigurationCall, then
\* InitProtocolContextCall with readonly = true, commit_genesis = false, no
\* patch_context and no stats path, and nothing else - never
\* InitProtocolContextIpcServer; when it has returned Ok it has sent both.
C15_InitForReadSequence ==
    opName = "init_protocol_for_read"
        => /\ IsPrefix(MsgsOf(opSent),
                       << "ChangeRuntimeConfigurationCall", "InitProtocolContextCall" >>)
           /\ Len(opSent) >= 2 =>
                 /\ opSent[2].params.readonly = TRUE
                 /\ opSent[2].params.commit_genesis = FALSE
                 /\ opSent[2].params.patch_context = None
                 /\ opSent[2].params.context_stats_db_path = None
           /\ OpReturnedOk("init_protocol_for_read") => Len(opSent) = 2

\* C15 witness: init_protocol_for_read returned Ok on a connection whose
\* storage configuration has an IPC socket path.
C15_Witness ==
    /\ OpReturnedOk("init_protocol_for_read")
    /\ configuration.ipc_socket_path # None
    /\ Len(opSent) = 2

\* One of the three derivations from the environment fails.
DerivationFails ==
    \/ configuration.main_chain_id = "Err"
    \/ configuration.genesis_protocol = "Err"
    \/ configuration.genesis_additional_data = "Err"

\* C16: genesis_result_data returns InvalidDataError, having sent nothing,
\* when one of the derivations of chain_id, genesis_protocol and
\* max_operations_ttl fails; otherwise it sends one GenesisResultDataCall
\* with the derived values and the given context hash.
C16_GenesisDerivedBeforeSend ==
    opName = "genesis_result_data"
        => IF DerivationFails
           THEN opRet.tag = "InvalidDataError" /\ opSent = <<>>
           ELSE /\ Len(opSent) = 1
                /\ opSent[1].msg = "GenesisResultDataCall"
                /\ opSent[1].params =
                       [ genesis_context_hash |-> opArgs.genesis_context_hash,
                         chain_id |-> configuration.main_chain_id,
                         genesis_protocol_hash |-> configuration.genesis_protocol,
                         genesis_max_operations_ttl |-> configuration.genesis_additional_data ]
                /\ opRet.tag # "InvalidDataError"

\* C16 witness: only the derivation of max_operations_ttl fails, and
\* genesis_result_data returned InvalidDataError without sending.
C16_Witness ==
    /\ opName = "genesis_result_data"
    /\ configuration.main_chain_id # "Err"
    /\ configuration.genesis_protocol # "Err"
    /\ configuration.genesis_additional_data = "Err"
    /\ opRet.tag = "InvalidDataError"
    /\ opSent = <<>>

(***************************************************************************)
(* Claims about handle_protocol_service_error (SpecErr).                   *)
(***************************************************************************)
\* C17: called with IpcError or UnexpectedMessage,
\* handle_protocol_service_error returns Err with the same error and does
\* not call log_callback; called with ProtocolError, InvalidDataError,
\* LockPoisonError or ContextIpcServerError it calls log_callback once,
\* with that error, and returns Ok.
C17_ErrorsPartitioned ==
    handled > 0
        => \/ /\ hErr.tag \in { "IpcError", "UnexpectedMessage" }
              /\ hRet.tag = "Err"
              /\ hRet.error = hErr
              /\ hLog = <<>>
           \/ /\ hErr.tag \in { "ProtocolError", "InvalidDataError",
                                "LockPoisonError", "ContextIpcServerError" }
              /\ hRet.tag = "Ok"
              /\ hLog = <<hErr>>

\* C17 witness: the second call was given a LockPoisonError, logged it once
\* and returned Ok.
C17_Witness ==
    /\ handled = 2
    /\ hErr.tag = "LockPoisonError"
    /\ hRet.tag = "Ok"
    /\ hLog = <<hErr>>

(***************************************************************************)
(* Claims about the sequence of calls on a connection (SpecConn).          *)
(***************************************************************************)
\* The request with this id is on the channel or its reply is.
InFlight(id) ==
    \/ \E i \in DOMAIN outbox : outbox[i] = id
    \/ \E i \in DOMAIN inbox : inbox[i] = id

\* C18: when the call before returned ProtocolError for the inner Err of
\* the reply to its request, the next call has sent its request, and when
\* it returns after reading a frame, the frame is the runner's reply to
\* that request and the call returns what the table gives for it: the
\* payload, the error of an inner Err, or UnexpectedMessage.
C18_UsableAfterProtocolError ==
    (prevTag = "ProtocolError" /\ prevOwn)
        => /\ pc = "receiving" => InFlight(calls)
           /\ ReturnedWithReply =>
                 /\ gotRe = calls
                 /\ (GotExpected /\ got.result.ok) => ret = RetOk(got.result.val)
                 /\ (GotExpected /\ ~got.result.ok)
                       => ret.tag \in { "ProtocolError", "ContextIpcServerError" }
                 /\ ~GotExpected => ret = UnexpectedMessageOf(got.variant)

\* C18 witness: a call returned ProtocolError and the next call on the
\* connection returned the payload of the reply to its own request.
C18_Witness ==
    /\ prevTag = "ProtocolError"
    /\ prevOwn
    /\ ReturnedWithReply
    /\ gotRe = calls
    /\ ret.tag = "Ok"

\* C19: a call starts only when no call is in progress, and it passes one
\* request to the channel (or fails to send); a request goes on the channel
\* only when a call starts; a frame leaves the channel only when the call
\* in progress reads it, which ends the call, and it is the oldest one.
C19_CallsDoNotInterleave ==
    [][ /\ calls' # calls =>
              /\ pc = "idle"
              /\ calls' = calls + 1
              /\ \/ outbox' = Append(outbox, calls')
                 \/ outbox' = outbox /\ pc' = "idle" /\ ret'.tag = "IpcError"
        /\ Len(outbox') > Len(outbox) => calls' = calls + 1
        /\ Len(inbox') < Len(inbox) =>
              /\ pc = "receiving"
              /\ pc' = "idle"
              /\ inbox' = Tail(inbox)
              /\ gotRe' = Head(inbox)
      ]_vars

\* C19 witness: two calls were made one after the other and each read the
\* reply to its own request.
C19_Witness ==
    /\ calls = 2
    /\ pc = "idle"
    /\ prevTag = "Ok"
    /\ got # NoMsg
    /\ gotRe = 2
    /\ inbox = <<>>
    /\ outbox = <<>>

(***************************************************************************)
(* Claims about concurrent awaiters of the readiness watch (SpecWatchFair). *)
(***************************************************************************)
\* The task is inside the loop of wait_for_context_init, past the lock.
InLoop(a) == aPc[a] \in { "borrow", "changed" }

\* C20: with several awaiters on the one Receiver, at most one is inside
\* the loop at a time; once the value is true, an awaiter suspended in
\* changed() has an unseen change to wake it (no other awaiter has taken
\* it); and every awaiter in progress when the value is true, whether it
\* holds the mutex or waits for it, eventually completes with success.
C20_FlipSeenByAllAwaiters ==
    /\ [](\A a, b \in Awaiters : (a # b /\ InLoop(a)) => ~InLoop(b))
    /\ [](\A a \in Awaiters : (wValue /\ aPc[a] = "changed") => wUnseen)
    /\ \A a \in Awaiters : (Waiting(a) /\ wValue) ~> (aWait[a] = "Ok")

\* C20 witness: every awaiter called wait_for_context_init while the value
\* was false, and all of them have completed with success.
C20_Witness ==
    \A a \in Awaiters :
        /\ aKind[a] = "wait"
        /\ ~aStartVal[a]
        /\ aWait[a] = "Ok"

C22_DeadlineIsTheTables ==
    req # NoReq
        => /\ Deadline = TableOf(req.msg).timeout
           /\ req.msg \in { "DumpContext", "RestoreContext" } <=> Deadline = None
           /\ (pc = "receiving" /\ TableOf(req.msg).timeout # None)
                 => elapsed <= TableOf(req.msg).timeout[1]
           /\ (pc = "idle" /\ ret = IpcErrorOf("ReceiveMessageTimeout"))
                 => /\ TableOf(req.msg).timeout # None
                    /\ elapsed = TableOf(req.msg).timeout[1]

\* C22 witness: dump_context is still awaiting its reply after more than
\* the four hours of the longest deadline.
C22_Witness ==
    /\ pc = "receiving"
    /\ req.msg = "DumpContext"
    /\ elapsed > 14400

\* C23: a task that called connect() is never at the mutex or in the loop
\* on the watch and has no result of a wait; and whatever the readiness
\* value and whoever holds the Receiver, its connect() completes, with a
\* session or with the IpcError of the transport.
C23_ConnectDoesNotGate ==
    /\ [](\A a \in Awaiters :
            aKind[a] = "connect" => (~Waiting(a) /\ aWait[a] = "none"))
    /\ \A a \in Awaiters :
            (aKind[a] = "connect" /\ aPc[a] = "connect") ~> (aConn[a] # "none")

\* C23 witness: connect() has opened a session while the value has never
\* been true and another task, suspended in changed(), holds the Receiver.
C23_Witness ==
    \E a, b \in Awaiters :
        /\ aKind[a] = "connect"
        /\ aConn[a] = "Ok"
        /\ ~everTrue
        /\ mutex = b
        /\ aPc[b] = "changed"

\* C24: the socket_path of a ProtocolRunnerApi value never changes once the
\* value exists; every remove_file, spawn_process, exists and connect made
\* through the value was made with that path; and a clone has the path of
\* the value it was cloned from.
C24_SocketPathFixed ==
    /\ [](\A a \in Apis :
            Built(a) =>
               /\ \A u \in Uses : used[a][u] \in { NoSock, socket_path[a] }
               /\ cloneOf[a] # 0 => socket_path[a] = socket_path[cloneOf[a]])
    /\ [][\A a \in Apis : Built(a) => socket_path'[a] = socket_path[a]]_vars

\* C24 witness: a value and its clone exist, start ran to its wait through
\* the value and connect through the clone.
C24_Witness ==
    \E a, b \in Apis :
        /\ cloneOf[b] = a
        /\ used[a]["remove_file"] # NoSock
        /\ used[a]["spawn_process"] # NoSock
        /\ used[a]["exists"] # NoSock
        /\ used[b]["connect"] # NoSock

\* The reader task of the stream has ended.
Exited(s) == reader[s] \in { "closed", "failed" }

\* C25: a reader task ends on the end of its stream only when the child
\* closed the stream and every line was read, and an ended reader (after
\* the end of the stream or the first failed read) reads and logs nothing
\* more; a running reader whose stream was closed eventually ends; and
\* start returns after spawn_process whatever the readers do: before the
\* spawn there is no reader, and after it the return always comes.
C25_ReadersEndAndNeverBlock ==
    /\ [](\A s \in Streams :
            /\ reader[s] = "closed" => (closedEnd[s] /\ pipe[s] = <<>>)
            /\ lPc = "init" => reader[s] = "none")
    /\ [][\A s \in Streams :
            Exited(s) => /\ reader'[s] = reader[s]
                         /\ logged'[s] = logged[s]
                         /\ Len(pipe'[s]) >= Len(pipe[s])]_vars
    /\ \A s \in Streams : (reader[s] = "running" /\ closedEnd[s]) ~> Exited(s)
    /\ (lPc = "spawned") ~> (lPc = "started")

\* C25 witness: start has returned while the reader of one stream is still
\* running on an open stream with an unread line, and the other reader
\* ended on a failed read.
C25_Witness ==
    /\ lPc = "started"
    /\ reader["stdout"] = "running"
    /\ ~closedEnd["stdout"]
    /\ pipe["stdout"] # <<>>
    /\ reader["stderr"] = "failed"

\* The tag the specification gives for each stream.
TagOf(s) == IF s = "stdout" THEN "OCaml-out" ELSE "OCaml-err"
\* The number of lines read from the stream so far.
NumRead(s) == Len(wrote[s]) - Len(pipe[s])

\* C26: per stream, the records are, in the order of reading, one info
\* record with the stream's tag for each line read, followed - exactly when
\* the reader has ended - by one closing record: the info closure notice
\* after the end of the stream, the warning after a failed read.
C26_OneRecordPerLineThenClosing ==
    \A s \in Streams :
        /\ Len(logged[s]) >= NumRead(s)
        /\ \A i \in 1..NumRead(s) :
              logged[s][i] = [level |-> "info", msg |-> <<"[", TagOf(s), "] ">> \o wrote[s][i]]
        /\ reader[s] \in { "none", "running" } => Len(logged[s]) = NumRead(s)
        /\ Exited(s) => Len(logged[s]) = NumRead(s) + 1
        /\ reader[s] = "closed" =>
              /\ logged[s][Len(logged[s])].level = "info"
              /\ logged[s][Len(logged[s])].msg
                    = <<"[", TagOf(s), "] ", IF s = "stdout" THEN "STDOUT" ELSE "STDERR", " closed.">>
        /\ reader[s] = "failed" =>
              /\ logged[s][Len(logged[s])].level = "warn"
              /\ logged[s][Len(logged[s])].msg[2] = TagOf(s)

\* C26 witness: the reader of stderr logged two lines and then the closure
\* notice, and the reader of stdout logged a line and then the warning of
\* a failed read, with a written line left unread.
C26_Witness ==
    /\ reader["stderr"] = "closed"
    /\ Len(logged["stderr"]) = 3
    /\ reader["stdout"] = "failed"
    /\ Len(logged["stdout"]) = 2
    /\ pipe["stdout"] # <<>>

\* C27: when the last calls were Pings that the runner answered in time
\* with PingResult, the last one returned Ok(()) after reading the reply to
\* its own request and left the connection as it found it - no call in
\* progress, no request unanswered, no frame unread - and a Ping called
\* next has its own request alone on the channel.
C27_PingRepeatable ==
    healthyPings > 0 =>
        /\ pc = "idle" =>
              /\ ret = RetOk(UnitPayload)
              /\ gotRe = calls
              /\ ~gotLate
              /\ outbox = <<>>
              /\ inbox = <<>>
        /\ pc = "receiving" => outbox \o inbox = <<calls>>

\* C27 witness: two Pings in a row were answered and returned.
C27_Witness ==
    /\ healthyPings = 2
    /\ pc = "idle"
    /\ req.msg = "Ping"
    /\ chanOpen

C29_ConsumesOwnReply ==
    got # NoMsg => gotRe = calls

\* C30: a start called while the runner spawned before is still running
\* launches no second runner and leaves the socket file of the running
\* runner in place: never two runners run at once, and a runner that is
\* listening has its file at the socket path.
C30_NoSecondRunner ==
    /\ Cardinality({ c \in DOMAIN children : Running(c) }) <= 1
    /\ \A c \in DOMAIN children : children[c] = "listening" => sockFile # NoFile

\* C31: a call whose send fails puts no request on the channel, returns
\* IpcError in the very step it was called in, with no call left in
\* progress, and takes no frame off the channel: the frames waiting there
\* are the same after it, and it has consumed no message.
C31_SendFailureReceivesNothing ==
    /\ [][(calls' # calls /\ outbox' = outbox) =>
              /\ ret' = IpcErrorOf("SendError")
              /\ pc' = "idle"
              /\ inbox' = inbox
              /\ got' = NoMsg
              /\ gotRe' = 0]_vars
    /\ [](ret = IpcErrorOf("SendError") => (pc = "idle" /\ got = NoMsg))

\* C31 witness: the second call failed to send while the late reply to the
\* first, timed-out call waits on the channel.
C31_Witness ==
    /\ calls = 2
    /\ ret = IpcErrorOf("SendError")
    /\ prevTag = "IpcError"
    /\ inbox = <<1>>

\* The i-th request of the operation was answered by the reply variant the
\* table gives for it, carrying Ok.
StepSucceeded(i) ==
    /\ i <= Len(opReplies)
    /\ opReplies[i].variant = TableOf(opSent[i].msg).reply
    /\ opReplies[i].result.ok

\* The operation called last is one of the two initialisations.
IsInit == opName \in { "init_protocol_for_write", "init_protocol_for_read" }

\* C32: what init_protocol_for_write has sent is a prefix of
\* ChangeRuntimeConfigurationCall, InitProtocolContextCall,
\* InitProtocolContextIpcServer, and what init_protocol_for_read has sent a
\* prefix of the first two; a request is sent only when every request
\* before it succeeded; a step that fails - the send or the receive fails,
\* the reply is of another variant or carries Err, or the genesis data
\* cannot be derived - ends the operation with that error; and a returned
\* operation sends nothing more.
C32_FirstFailureEnds ==
    /\ [](IsInit =>
            LET n == Len(opSent) IN
            /\ IsPrefix(MsgsOf(opSent),
                        IF opName = "init_protocol_for_write"
                        THEN << "ChangeRuntimeConfigurationCall", "InitProtocolContextCall",
                                "InitProtocolContextIpcServer" >>
                        ELSE << "ChangeRuntimeConfigurationCall", "InitProtocolContextCall" >>)
            /\ Len(opReplies) <= n
            /\ \A i \in 1..(n - 1) : StepSucceeded(i)
            /\ (opPc = "idle" /\ Len(opReplies) < n) => opRet = IpcErrorOf("SendError")
            /\ (n > 0 /\ Len(opReplies) = n /\ ~StepSucceeded(n)) =>
                  /\ opPc = "idle"
                  /\ IF opReplies[n].variant = "IpcError"
                     THEN opRet = IpcErrorOf(opReplies[n].result)
                     ELSE IF opReplies[n].variant # TableOf(opSent[n].msg).reply
                     THEN opRet = UnexpectedMessageOf(opReplies[n].variant)
                     ELSE /\ opRet.tag = IF n = 2 THEN "ProtocolError"
                                         ELSE "ContextIpcServerError"
                          /\ n # 1
            /\ (configuration.genesis_additional_data = "Err" /\ StepSucceeded(1)) =>
                  /\ opPc = "idle"
                  /\ opRet.tag = "InvalidDataError"
                  /\ n = 1
            /\ opRet.tag = "InvalidDataError" => (n = 1 /\ StepSucceeded(1)))
    /\ [][(opPc = "idle" /\ ops' = ops) => opSent' = opSent]_vars

\* C32 witness: init_protocol_for_write, on a connection configured with an
\* IPC socket path, ended with the inner Err of InitProtocolContextResult
\* after two requests.
C32_Witness ==
    /\ opName = "init_protocol_for_write"
    /\ opPc = "idle"
    /\ configuration.ipc_socket_path # None
    /\ Len(opSent) = 2
    /\ Len(opReplies) = 2
    /\ opRet.tag = "ProtocolError"

\* C33: init_protocol_for_write returns Ok only when every request it sent
\* succeeded, and the value is then the payload of the
\* InitProtocolContextResult it read; when the context IPC server step
\* fails after InitProtocolContextCall succeeded, it returns the error of
\* that step.
C33_WriteReturnsInitResult ==
    opName = "init_protocol_for_write" =>
        /\ OpReturnedOk("init_protocol_for_write") =>
              /\ Len(opSent) >= 2
              /\ Len(opReplies) = Len(opSent)
              /\ \A i \in 1..Len(opSent) : StepSucceeded(i)
              /\ opReplies[2].variant = "InitProtocolContextResult"
              /\ opRet = [tag |-> "Ok", value |-> opReplies[2].result.val]
        /\ (opPc = "idle" /\ Len(opSent) = 3 /\ ~StepSucceeded(3)) =>
              /\ StepSucceeded(2)
              /\ opRet.tag \in { "IpcError", "UnexpectedMessage", "ContextIpcServerError" }
              /\ Len(opReplies) = 3 =>
                    \/ opReplies[3].variant = "IpcError"
                          /\ opRet = IpcErrorOf(opReplies[3].result)
                    \/ opReplies[3].variant \notin { "IpcError", "InitProtocolContextIpcServerResult" }
                          /\ opRet = UnexpectedMessageOf(opReplies[3].variant)
                    \/ opReplies[3].variant = "InitProtocolContextIpcServerResult"
                          /\ opRet.tag = "ContextIpcServerError"
                          /\ opRet.message[2] = opReplies[3].result.val

\* C33 witness: the context was initialised, the context IPC server step
\* answered Err, and init_protocol_for_write returned ContextIpcServerError.
C33_Witness ==
    /\ opName = "init_protocol_for_write"
    /\ opPc = "idle"
    /\ Len(opReplies) = 3
    /\ StepSucceeded(2)
    /\ opReplies[3].variant = "InitProtocolContextIpcServerResult"
    /\ opRet.tag = "ContextIpcServerError"

\* C34: single_response_blocking never panics, and a response with a status
\* that is not a success makes it return Err.
C34_NeverUnreachable ==
    /\ rpcRet.tag # "panic"
    /\ (rpcIn # NoRpc /\ rpcIn.getOk /\ ~(rpcIn.status \in 200..299)) => rpcRet.tag = "Err"

\* From block h, following the successors, block b is reached and every
\* block passed on the way is marked applied.
RECURSIVE PathApplied(_, _)
PathApplied(h, b) ==
    /\ blockMeta[h] # NoMeta
    /\ blockMeta[h].successor # None
    /\ LET n == blockMeta[h].successor[1] IN
          \/ n = b
          \/ /\ n # h
             /\ blockMeta[n] # NoMeta
             /\ blockMeta[n].is_applied
             /\ PathApplied(n, b)

\* The walk cannot go past the block: it has no metadata, or it is not
\* applied and is not stored or its operations are not complete.
Stuck(b) ==
    \/ blockMeta[b] = NoMeta
    \/ /\ ~blockMeta[b].is_applied
       /\ b \notin blockStore \/ b \notin opsDone

\* C35: apply_block is called on one block at a time, and only on a block
\* whose metadata says is_applied = false, that is in block storage, whose
\* operations are complete, and that is reached from current_head through
\* applied blocks only; the walk ends, applying nothing, at a block that is
\* missing or incomplete; and the blocks published as applied are, in
\* order, each the successor of the one before, beginning after the first
\* head.
C35_AppliesInSuccessorOrder ==
    /\ [][Len(applyCalls') > Len(applyCalls) =>
            LET b == applyCalls'[Len(applyCalls')].block IN
            /\ Len(applyCalls') = Len(applyCalls) + 1
            /\ cursor = Some(b)
            /\ blockMeta[b] # NoMeta
            /\ ~blockMeta[b].is_applied
            /\ b \in blockStore
            /\ b \in opsDone
            /\ PathApplied(current_head, b)]_vars
    /\ [][(fPc = "walk" /\ cursor # None /\ cursor' # cursor /\ Stuck(cursor[1])) =>
            /\ cursor' = None
            /\ applyCalls' = applyCalls
            /\ current_head' = current_head]_vars
    /\ [](/\ \A i \in DOMAIN published : published[i] = i
          /\ current_head = Len(published))

\* C35 witness: one walk applied blocks 1 and 2 and ended with Ok at block
\* 3, which is stored but whose operations are not complete.
C35_Witness ==
    /\ feeds = 1
    /\ fPc = "idle"
    /\ fRet = FeedOk
    /\ applyCalls = << [block |-> 1, ok |-> TRUE], [block |-> 2, ok |-> TRUE] >>
    /\ 3 \in blockStore
    /\ 3 \notin opsDone

\* C36: a BlockApplied is published for a block, and current_head becomes
\* that block, only in the step in which apply_block succeeded on it and
\* its metadata was stored with is_applied = true, and no error is returned
\* then; when apply_block or the put fails, nothing is published,
\* current_head stays, feed_chain_to_protocol returns that error and the
\* handler logs one warning and ends; a warning is logged only for an error.
C36_PublishedOnlyWhenStored ==
    /\ [][Len(published') > Len(published) =>
            LET b == published'[Len(published')] IN
            /\ published' = Append(published, b)
            /\ applyCalls' = Append(applyCalls, [block |-> b, ok |-> TRUE])
            /\ blockMeta'[b] # NoMeta
            /\ blockMeta'[b].is_applied
            /\ ~blockMeta[b].is_applied
            /\ current_head' = b
            /\ fPc' = "walk"
            /\ fRet' = fRet
            /\ warned' = warned]_vars
    /\ [][current_head' # current_head => Len(published') > Len(published)]_vars
    /\ [][(Len(applyCalls') > Len(applyCalls) /\ fRet'.tag = "Err") =>
            /\ fRet'.at \in { "apply_block", "put" }
            /\ fRet'.at = "apply_block" <=> ~applyCalls'[Len(applyCalls')].ok
            /\ published' = published
            /\ current_head' = current_head
            /\ blockMeta' = blockMeta
            /\ warned' = warned + 1
            /\ fPc' = "idle"]_vars
    /\ [][Len(applyCalls') > Len(applyCalls) =>
            (fRet'.tag = "Err" \/ Len(published') > Len(published))]_vars
    /\ [][warned' # warned => (warned' = warned + 1 /\ fRet'.tag = "Err" /\ fPc' = "idle")]_vars

\* C36 witness: apply_block succeeded on block 1, the put of its metadata
\* failed, and the handler ended with a warning: nothing was published and
\* current_head is still the first head.
C36_Witness ==
    /\ applyCalls = << [block |-> 1, ok |-> TRUE] >>
    /\ fRet = FeedErr("put")
    /\ fPc = "idle"
    /\ warned = 1
    /\ published = <<>>
    /\ current_head = 0
    /\ ~blockMeta[1].is_applied

\* C37: a block on which apply_block succeeded is not passed to apply_block
\* again.
C37_AppliedOnce ==
    \A i, j \in DOMAIN applyCalls :
        (i < j /\ applyCalls[i].ok) => applyCalls[j].block # applyCalls[i].block

====
